---- MODULE Spec2Model ----
(***************************************************************************)
(* Model of dora's deposit indexer (indexer/execution/deposit_indexer.go)  *)
(* and of the beacon block cache (blockCache).                             *)
(*                                                                         *)
(* Two specifications share the module:                                    *)
(*   Spec       the deposit indexer: one tick of runDepositIndexer is the  *)
(*              sequence RunDepositIndexer, ProcessFinalizedBlocks (one    *)
(*              step per batch of the loop), ProcessRecentBlocksForFork    *)
(*              (one step per attempt of the retry loop); Restart is a     *)
(*              process restart between ticks.                             *)
(*   SpecCache  the block cache under createOrGetBlock and removeBlock.    *)
(***************************************************************************)
EXTENDS Integers, Sequences, FiniteSets, Bags, TLC

(***************************************************************************)
(* Bounds of the model.                                                    *)
(***************************************************************************)
\* Highest execution block number of the modelled chains.
MaxBlock == 4
\* Number of ticks of runDepositIndexerLoop that are explored.
MaxTicks == 2
\* Number of process restarts that are explored.
MaxRestarts == 1
\* The configured utils.Config.ExecutionApi.DepositLogBatchSize.
DepositLogBatchSize == 2
\* Number of faults (a failing RPC, lookup or database call, a log delivered
\* twice, a head without execution block number) that are explored in one run.
MaxFaults == 1
\* Highest slot of a beacon block.
MaxSlot == 1
\* Number of Block instances the cache creates in one run.
MaxInstances == 3
\* Highest maxDistance passed to getCanonicalDistance.
MaxDistanceArg == 1
\* Highest limit passed to getLatestBlocks.
MaxLimit == 2
\* Longest log response of one attempt of the recent pass followed statement
\* by statement.
MaxLogs == 3
\* Highest validator count of the validators page; the s argument goes one
\* above it.
MaxValidators == 4
\* Highest small c argument of the validators page.
MaxPageArg == 4

(***************************************************************************)
(* Program constants.                                                      *)
(***************************************************************************)
\* Rows per InsertDepositTxs call. The source has 500; the model scales it
\* to 2 so that a batch of several insert calls fits the modelled chain.
InsertChunk == 2
\* Attempts of the retry loop of processRecentBlocksForFork.
MaxRetry == 3
\* Modulus of the unsigned block-number arithmetic. The source computes in
\* uint64 (2^64); TLC's integers are 32 bit wide, so the modulus is scaled
\* to 2^30, which is above every block number of the model.
UintMod == 1073741824
\* The batch size used when none is configured.
DefaultBatchSize == 1000
\* The page size of the validators page without a c argument, and its caps
\* for the HTML and the JSON page.
DefaultPageSize == 50
HtmlPageSizeCap == 1000
JsonPageSizeCap == 10000

Min(a, b) == IF a < b THEN a ELSE b

RECURSIVE BagOfSeq(_)
BagOfSeq(s) == IF s = <<>> THEN EmptyBag ELSE SetToBag({Head(s)}) (+) BagOfSeq(Tail(s))

(***************************************************************************)
(* The execution chains the clients serve.  Two competing forks A and B    *)
(* share the blocks up to number 1; the finalized chain is A.  Deposit     *)
(* indices count the DepositEvent logs along one chain, so the same index  *)
(* names different events on A and on B after the fork point.              *)
(***************************************************************************)
Forks == {"A", "B"}
FinalizedFork == "A"
DepositEventTopic == "DepositEvent"

\* log.BlockHash of block n on fork f.
BlockHashOf(f, n) == IF n <= 1 THEN <<"C", n>> ELSE <<f, n>>

\* Number of logs the deposit contract emitted in block n of fork f.
LogCount(f, n) ==
    IF n <= 0 THEN 0
    ELSE IF n = 1 THEN 1
    ELSE IF f = "A" THEN (CASE n = 2 -> 2 [] n = 3 -> 1 [] OTHER -> 1)
    ELSE (CASE n = 2 -> 0 [] OTHER -> 1)

\* Block 3 of fork A holds a log of the contract that is no DepositEvent.
IsDepositLog(f, n) == ~(f = "A" /\ n = 3)

RECURSIVE FirstIndex(_, _)
\* Deposit index of the first DepositEvent of block n on fork f.
FirstIndex(f, n) ==
    IF n <= 1 THEN 0
    ELSE FirstIndex(f, n - 1) + (IF IsDepositLog(f, n - 1) THEN LogCount(f, n - 1) ELSE 0)

\* The logs of block n on fork f, as FilterLogs returns them (types.Log with
\* the decoded index of the event; both deposits of block 2 of A are made by
\* one transaction).  PubkeyOk and SignatureOk: the public key and the
\* signature of the event decompress; Verifies: blsu.Verify accepts them.
\* The second deposit of block 2 of A carries a signature that does not
\* verify, the deposit of block 4 of A a public key and the deposit of block
\* 3 of B a signature that does not decompress.
BlockLogs(f, n) ==
    [k \in 1..LogCount(f, n) |->
        [Topic |-> IF IsDepositLog(f, n) THEN DepositEventTopic ELSE "Other",
         Index |-> IF IsDepositLog(f, n) THEN FirstIndex(f, n) + k - 1 ELSE 0 - 1,
         BlockNumber |-> n,
         BlockHash |-> BlockHashOf(f, n),
         TxHash |-> IF f = "A" /\ n = 2 THEN <<BlockHashOf(f, n), 1>> ELSE <<BlockHashOf(f, n), k>>,
         PubkeyOk |-> ~(f = "A" /\ n = 4),
         SignatureOk |-> ~(f = "B" /\ n = 3),
         Verifies |-> ~(f = "A" /\ n = 2 /\ k = 2) /\ ~(f = "A" /\ n = 4) /\ ~(f = "B" /\ n = 3)]]

RECURSIVE FilterLogs(_, _, _)
\* client.FilterLogs for the block range [from, to] on the chain of fork f.
FilterLogs(f, from, to) ==
    IF from > to \/ from > MaxBlock THEN <<>>
    ELSE BlockLogs(f, from) \o FilterLogs(f, from + 1, to)

\* A log response in which the log at position d is delivered twice (d = 0: none).
DeliverTwice(logs, d) ==
    IF d = 0 THEN logs ELSE SubSeq(logs, 1, d) \o SubSeq(logs, d, Len(logs))

\* Every deposit index of the modelled chains.
AllIndices == 0..(FirstIndex("A", MaxBlock + 1) + FirstIndex("B", MaxBlock + 1))

(***************************************************************************)
(* The beacon side: fork ids.                                              *)
(***************************************************************************)
\* forkWithClients.forkId of the head of fork f.
HeadForkId(f) == IF f = "A" THEN 1 ELSE 2

\* What GetBlocksByExecutionBlockHash returns for a block hash: the fork ids
\* of the cached beacon blocks wrapping it.  The block of the shared prefix
\* is on fork 0; block 2 of fork A is wrapped by two beacon blocks, of forks
\* 0 and 1, returned in the order of a Go map iteration (either order);
\* block 3 of fork B is on fork 2; no other block is cached.
BeaconLookups(blockHash) ==
    CASE blockHash[1] = "C" -> {<<0>>}
      [] blockHash = <<"A", 2>> -> {<<0, 1>>, <<1, 0>>}
      [] blockHash = <<"B", 3>> -> {<<2>>}
      [] OTHER -> {<<>>}

\* The block hashes of the modelled chains.
BlockHashes == {BlockHashOf(f, n) : f \in Forks, n \in 1..MaxBlock}

\* The lookups one attempt can meet, per block hash: only the order of the
\* two beacon blocks of block 2 of fork A varies.
BeaconViews ==
    {[h \in BlockHashes |-> IF h = <<"A", 2>> THEN x ELSE CHOOSE y \in BeaconLookups(h) : TRUE] :
        x \in BeaconLookups(<<"A", 2>>)}

(***************************************************************************)
(* State.                                                                  *)
(***************************************************************************)
VARIABLES
    stateLoaded,          \* ds.state != nil
    state,                \* *ds.state: [FinalBlock, HeadBlock]
    unfinalizedDeposits,  \* ds.unfinalizedDeposits: index -> set of block hashes
    batchSize,            \* ds.batchSize
    db,                   \* the database: [rows: bag of DepositTx, state: the stored checkpoint]
    pc,                   \* position of the background task: idle | finalized | recent
    target,               \* finalizedBlockNumber of the running finalized pass
    forkIdx,              \* position in headForks of the running recent pass
    retryCount,           \* retryCount of the running recent pass
    elHead,               \* elHeadBlockNumber of the running recent pass
    result,               \* what the last tick returned: none | running | ok | error
    tickInput,            \* the last tick: the justified epoch, whether the provider had a
                          \* finalized execution
                          \* block number, the number, the result of the tick before and
                          \* the faults met before the tick
    lastBatch,            \* the last step of the finalized pass: its range, indices and outcome
    recentLog,            \* the recent passes of the tick: the events delivered, whether one
                          \* came twice in a response, the forks whose pass returned an error,
                          \* whether the last attempt met an RPC error, the ToBlock of
                          \* its log query (0 when it issued none), and what
                          \* GetBlocksByExecutionBlockHash returned for its rows' hashes
    sessionRows,          \* bag of the rows the recent pass committed since the process started
    ticks,                \* ticks run so far
    sessionTicks,         \* ticks run since the process started
    restarts,             \* restarts so far
    maxFinalBlock,        \* the largest FinalBlock the indexer has worked with so far
    faults,               \* faults met so far: errors, missing answers, a log delivered
                          \* twice, a head without execution block number
    attempt               \* one call of processRecentBlocksForFork followed statement by
                          \* statement: [pc, retryCount, ctxs (the contexts created, TRUE
                          \* while not cancelled), ctxCancel (the context ctxCancel cancels,
                          \* 0 for nil), ctx, logs, idx, txHash, fetched (the hashes passed
                          \* to loadTransactionByHash for the logs of this attempt), err]

handlerVars == <<stateLoaded, state, unfinalizedDeposits, batchSize, db, pc, target, forkIdx,
                 retryCount, elHead, result, tickInput, lastBatch, recentLog, sessionRows,
                 ticks, sessionTicks, restarts, maxFinalBlock, faults>>

indexerVars == <<handlerVars, attempt>>

VARIABLES
    cache,                \* blockCache: [rootMap, slotMap, highestSlot, lowestSlot]
    blocks,               \* every *Block created so far, by instance: [Root, Slot,
                          \* parentRoot (NoRoot until the header is loaded), block (the
                          \* body is loaded)]
    lastCall              \* the last call of the observed caller and what it returned

cacheVars == <<cache, blocks, lastCall>>

VARIABLES
    cacheMutex,           \* cache.cacheMutex: [writer (the goroutine that holds the exclusive
                          \* lock, 0 if none), readers (the goroutines that hold the shared lock)]
    procs                 \* the goroutines that call the cache: [pc, root, slot, block (the
                          \* *Block the goroutine holds, 0 for nil), wasCreated]

lockVars == <<cacheMutex, procs>>

vars == <<indexerVars, cacheVars, lockVars>>

(***************************************************************************)
(* The persistence gateway (package db).                                   *)
(***************************************************************************)
\* db.InsertDepositTxs: a batch insert of the rows.
InsertDepositTxs(rows, deposits) == rows (+) BagOfSeq(deposits)

\* db.SetExplorerState("indexer.depositstate", ds.state, tx).
SetExplorerState(dbx, st) == [dbx EXCEPT !.state = st]

\* db.RunDBTransaction: the handler's writes (after) are committed unless the
\* handler returned an error or the commit failed; otherwise the database
\* stays as it was (before).
RunDBTransaction(before, after, handlerErr, commitErr) ==
    [db |-> IF handlerErr \/ commitErr THEN before ELSE after,
     err |-> handlerErr \/ commitErr]

\* What can go wrong in one persist call.
PersistFaults == {"none", "insert", "state", "commit"}

(***************************************************************************)
(* DepositIndexer.persistFinalizedDepositTxs                               *)
(***************************************************************************)
\* A variant that sets HeadBlock to the end of every batch.
NewHeadBlockAlways(toBlockNumber, headBlock) == toBlockNumber

\* Lines 467-469: HeadBlock is raised to toBlockNumber, never lowered.
NewHeadBlock(toBlockNumber, headBlock) ==
    IF toBlockNumber > headBlock THEN toBlockNumber ELSE headBlock

\* The handler inserts the rows, then assigns ds.state.FinalBlock and
\* ds.state.HeadBlock (in memory), then writes ds.state to the explorer state.
persistFinalizedDepositTxs(st, dbx, toBlockNumber, deposits, fault) ==
    IF Len(deposits) > 0 /\ fault = "insert"
    THEN [state |-> st, db |-> RunDBTransaction(dbx, dbx, TRUE, FALSE).db, err |-> TRUE]
    ELSE LET inserted == IF Len(deposits) > 0
                         THEN [dbx EXCEPT !.rows = InsertDepositTxs(dbx.rows, deposits)]
                         ELSE dbx
             st2 == [FinalBlock |-> toBlockNumber,
                     HeadBlock |-> NewHeadBlock(toBlockNumber, st.HeadBlock)]
             tx == RunDBTransaction(dbx, SetExplorerState(inserted, st2),
                                    fault = "state", fault = "commit")
         IN [state |-> st2, db |-> tx.db, err |-> tx.err]

\* DepositIndexer.persistRecentDepositTxs
\* A variant that also stores the block of the last row as the checkpoint.
persistRecentDepositTxsAndState(dbx, deposits, fault) ==
    LET last == deposits[Len(deposits)].BlockNumber
        tx == RunDBTransaction(dbx,
                  SetExplorerState([dbx EXCEPT !.rows = InsertDepositTxs(dbx.rows, deposits)],
                                   [FinalBlock |-> last, HeadBlock |-> last]),
                  fault = "insert", fault = "commit")
    IN [db |-> tx.db, err |-> tx.err]

persistRecentDepositTxs(dbx, deposits, fault) ==
    LET tx == RunDBTransaction(dbx, [dbx EXCEPT !.rows = InsertDepositTxs(dbx.rows, deposits)],
                               fault = "insert", fault = "commit")
    IN [db |-> tx.db, err |-> tx.err]

(***************************************************************************)
(* DepositIndexer.checkDepositValidity                                     *)
(***************************************************************************)
\* A variant that does not ask for the verification.
checkDepositValidityDecodeOnly(log) == log.PubkeyOk /\ log.SignatureOk

\* ValidSignature of the row: err == nil && err2 == nil && blsu.Verify(...).
checkDepositValidity(log) == log.PubkeyOk /\ log.SignatureOk /\ log.Verifies

(***************************************************************************)
(* DepositIndexer.processFinalizedBlocks: one iteration of its loop.       *)
(***************************************************************************)
\* A variant that does not stop the batch at the finalized block number.
ToBlockUncapped(finalBlock, finalizedBlockNumber, size) == finalBlock + size

\* toBlock of the batch that starts after finalBlock.
ToBlock(finalBlock, finalizedBlockNumber, size) ==
    IF finalBlock + size > finalizedBlockNumber THEN finalizedBlockNumber ELSE finalBlock + size

RECURSIVE FinalizedDepositTxs(_)
\* The rows built from a log response (lines 195-242).
FinalizedDepositTxs(logs) ==
    IF logs = <<>> THEN <<>>
    ELSE LET log == Head(logs)
         IN IF log.Topic # DepositEventTopic THEN FinalizedDepositTxs(Tail(logs))
            ELSE <<[Index |-> log.Index, BlockNumber |-> log.BlockNumber,
                    BlockRoot |-> log.BlockHash, TxHash |-> log.TxHash,
                    ValidSignature |-> checkDepositValidity(log),
                    Orphaned |-> FALSE, ForkId |-> 0]>> \o FinalizedDepositTxs(Tail(logs))

RECURSIVE PersistFinalizedChunks(_, _, _, _, _, _)
\* The insert loop (lines 247-258); depositIdx counts from 0 as in the source.
\* fault = [at |-> the depositIdx of the failing call, kind |-> what fails].
PersistFinalizedChunks(st, dbx, toBlock, depositTxs, depositIdx, fault) ==
    IF depositIdx >= Len(depositTxs) THEN [state |-> st, db |-> dbx, err |-> FALSE]
    ELSE LET endIdx == Min(depositIdx + InsertChunk, Len(depositTxs))
             r == persistFinalizedDepositTxs(st, dbx, toBlock,
                      SubSeq(depositTxs, depositIdx + 1, endIdx),
                      IF fault.at = depositIdx THEN fault.kind ELSE "none")
         IN IF r.err THEN r
            ELSE PersistFinalizedChunks(r.state, r.db, toBlock, depositTxs,
                                        depositIdx + InsertChunk, fault)

\* A variant that forgets only the finalized block's own entry.
PurgeFinalizedHashOnly(unf, depositTxs) ==
    [i \in DOMAIN unf |->
        unf[i] \ {depositTxs[k].BlockRoot : k \in {j \in 1..Len(depositTxs) : depositTxs[j].Index = i}}]

RECURSIVE PurgeFinalized(_, _)
\* Lines 260-264: every index of the batch is deleted from the dedup map.
PurgeFinalized(unf, depositTxs) ==
    IF depositTxs = <<>> THEN unf
    ELSE PurgeFinalized([i \in DOMAIN unf \ {Head(depositTxs).Index} |-> unf[i]],
                        Tail(depositTxs))

\* One iteration of the loop of processFinalizedBlocks (lines 168-273).
\* rpcErr: the log query, the decoding or a transaction or header lookup failed.
FinalizedBatch(st, dbx, unf, finalizedBlockNumber, size, rpcErr, fault) ==
    LET toBlock == ToBlock(st.FinalBlock, finalizedBlockNumber, size)
        logs == FilterLogs(FinalizedFork, st.FinalBlock + 1, toBlock)
        depositTxs == FinalizedDepositTxs(logs)
        none == [state |-> st, db |-> dbx, unf |-> unf, err |-> TRUE,
                 from |-> st.FinalBlock + 1, to |-> toBlock, txs |-> depositTxs, rpcErr |-> TRUE]
    IN IF rpcErr THEN none
       ELSE IF Len(depositTxs) > 0
       THEN LET r == PersistFinalizedChunks(st, dbx, toBlock, depositTxs, 0, fault)
            IN [state |-> r.state, db |-> r.db,
                unf |-> IF r.err THEN unf ELSE PurgeFinalized(unf, depositTxs),
                err |-> r.err, from |-> st.FinalBlock + 1, to |-> toBlock,
                txs |-> depositTxs, rpcErr |-> FALSE]
       ELSE LET r == persistFinalizedDepositTxs(st, dbx, toBlock, <<>>,
                                                IF fault.at = 0 THEN fault.kind ELSE "none")
            IN [state |-> r.state, db |-> r.db, unf |-> unf, err |-> r.err,
                from |-> st.FinalBlock + 1, to |-> toBlock, txs |-> depositTxs,
                rpcErr |-> FALSE]

\* The persist faults one batch can meet: none, or one failing call (named by
\* the depositIdx of the call, 0 for the call of an empty batch).
BatchFaults(nRows) ==
    {[at |-> 0 - 1, kind |-> "none"]} \cup
    {[at |-> a, kind |-> k] : a \in {x \in 0..nRows : x % InsertChunk = 0 /\ (x < nRows \/ x = 0)},
                              k \in PersistFaults \ {"none"}}

(***************************************************************************)
(* DepositIndexer.processRecentBlocksForFork: one attempt of its loop.     *)
(***************************************************************************)
\* ToBlock of the query: elHeadBlockNumber - 1 in unsigned arithmetic.
RecentToBlock(elHeadBlockNumber) == (elHeadBlockNumber - 1) % UintMod

\* A variant that takes the last beacon block returned.
DepositForkIdLast(headForkId, beaconBlock) ==
    IF Len(beaconBlock) >= 1 THEN beaconBlock[Len(beaconBlock)] ELSE headForkId

\* The fork id of a deposit (lines 372-379): that of the first beacon block
\* returned for the block hash, the head fork's when none is known.
DepositForkId(headForkId, beaconBlock) ==
    IF Len(beaconBlock) = 1 THEN beaconBlock[1]
    ELSE IF Len(beaconBlock) > 1 THEN beaconBlock[1]
    ELSE headForkId

\* A variant that tests the deposit index alone.
IsKnownUnfinalizedIndex(unf, depositIndex, blockHash) == depositIndex \in DOMAIN unf

\* The dedup test of line 354.
IsKnownUnfinalized(unf, depositIndex, blockHash) ==
    depositIndex \in DOMAIN unf /\ blockHash \in unf[depositIndex]

RECURSIVE RecentDepositTxs(_, _, _, _)
\* The rows built from a log response (lines 341-405); bview gives, per
\* chain of the block hash, what GetBlocksByExecutionBlockHash returns.
RecentDepositTxs(logs, unf, headForkId, bview) ==
    IF logs = <<>> THEN <<>>
    ELSE LET log == Head(logs)
             rest == RecentDepositTxs(Tail(logs), unf, headForkId, bview)
         IN IF log.Topic # DepositEventTopic THEN rest
            ELSE IF IsKnownUnfinalized(unf, log.Index, log.BlockHash) THEN rest
            ELSE <<[Index |-> log.Index, BlockNumber |-> log.BlockNumber,
                    BlockRoot |-> log.BlockHash, TxHash |-> log.TxHash,
                    ValidSignature |-> checkDepositValidity(log),
                    Orphaned |-> TRUE,
                    ForkId |-> DepositForkId(headForkId, bview[log.BlockHash])]>> \o rest

RECURSIVE PersistRecentChunks(_, _, _, _)
\* The insert loop (lines 410-421).
PersistRecentChunks(dbx, depositTxs, depositIdx, fault) ==
    IF depositIdx >= Len(depositTxs) THEN [db |-> dbx, err |-> FALSE]
    ELSE LET endIdx == Min(depositIdx + InsertChunk, Len(depositTxs))
             r == persistRecentDepositTxs(dbx, SubSeq(depositTxs, depositIdx + 1, endIdx),
                      IF fault.at = depositIdx THEN fault.kind ELSE "none")
         IN IF r.err THEN r
            ELSE PersistRecentChunks(r.db, depositTxs, depositIdx + InsertChunk, fault)

RECURSIVE RecordUnfinalized(_, _)
\* Lines 423-428: every persisted (index, block hash) enters the dedup map.
RecordUnfinalized(unf, depositTxs) ==
    IF depositTxs = <<>> THEN unf
    ELSE LET t == Head(depositTxs)
             cur == IF t.Index \in DOMAIN unf THEN unf[t.Index] ELSE {}
         IN RecordUnfinalized([i \in DOMAIN unf \cup {t.Index} |->
                                  IF i = t.Index THEN cur \cup {t.BlockRoot} ELSE unf[i]],
                              Tail(depositTxs))

\* The logs one attempt receives for fork f.
RecentLogs(st, f, elHeadBlockNumber, dup) ==
    DeliverTwice(FilterLogs(f, st.FinalBlock + 1, RecentToBlock(elHeadBlockNumber)), dup)

\* One attempt (one iteration of the loop at lines 313-432).
RecentAttempt(st, dbx, unf, f, elHeadBlockNumber, dup, bview, rpcErr, fault) ==
    LET logs == RecentLogs(st, f, elHeadBlockNumber, dup)
        depositTxs == RecentDepositTxs(logs, unf, HeadForkId(f), bview)
    IN IF rpcErr THEN [db |-> dbx, unf |-> unf, err |-> TRUE, txs |-> <<>>]
       ELSE IF Len(depositTxs) > 0
       THEN LET r == PersistRecentChunks(dbx, depositTxs, 0, fault)
            IN [db |-> r.db,
                unf |-> IF r.err THEN unf ELSE RecordUnfinalized(unf, depositTxs),
                err |-> r.err, txs |-> depositTxs]
       ELSE [db |-> dbx, unf |-> unf, err |-> FALSE, txs |-> depositTxs]

\* The persist faults one attempt can meet.
RecentFaults(nRows) ==
    {[at |-> 0 - 1, kind |-> "none"]} \cup
    {[at |-> a, kind |-> k] : a \in {x \in 0..nRows : x % InsertChunk = 0 /\ x < nRows},
                              k \in {"insert", "commit"}}

(***************************************************************************)
(* The deposit indexer as a state machine.                                 *)
(***************************************************************************)
\* headForks of processRecentBlocks: the fork heads with clients.
HeadForks == <<"A", "B">>

EmptyMap == [i \in {} |-> {}]
ZeroState == [FinalBlock |-> 0, HeadBlock |-> 0]
NoBatch == [ran |-> FALSE, err |-> FALSE, rpcErr |-> FALSE, from |-> 0, to |-> 0, indices |-> {}]
NoRecent == [delivered |-> {}, dup |-> FALSE, failed |-> {}, rpcErr |-> FALSE, toBlock |-> 0,
             lookups |-> EmptyMap]
NoTx == "none"
NoAttempt == [pc |-> "idle", retryCount |-> 0, ctxs |-> <<>>, ctxCancel |-> 0, ctx |-> 0,
              logs |-> <<>>, idx |-> 0, txHash |-> NoTx, fetched |-> <<>>, err |-> FALSE]
NoInput == [justifiedEpoch |-> 0, finalized |-> FALSE, number |-> 0, prev |-> "none",
            faults0 |-> 0]

\* DepositIndexer.loadState: ds.state is read from the explorer state.
loadState(dbx) == dbx.state

\* A variant that never reports the fault.
IsConsistencyFaultNever(finalizedBlockNumber, finalBlock) == FALSE

\* A variant that also refuses a finalized block number equal to FinalBlock.
IsConsistencyFaultOrEqual(finalizedBlockNumber, finalBlock) == finalizedBlockNumber <= finalBlock

\* The check of line 113.
IsConsistencyFault(finalizedBlockNumber, finalBlock) == finalizedBlockNumber < finalBlock

\* What the chain state provider and the beacon indexer can answer in a tick:
\* the justified epoch, whether the justified root's block is cached and has
\* index values, its ExecutionNumber, and whether a finalized client is ready.
\* A missing block, missing index values, a missing client and a finalized
\* number below FinalBlock (the consistency fault) are faults.
TickInputs(finalBlock, mayFail) ==
    {[justifiedEpoch |-> 0, block |-> "ok", number |-> 0, clients |-> TRUE, fault |-> FALSE]}
    \cup {[justifiedEpoch |-> 1, block |-> "ok", number |-> n, clients |-> TRUE, fault |-> FALSE] :
            n \in finalBlock..MaxBlock}
    \cup (IF mayFail
          THEN {[justifiedEpoch |-> 1, block |-> "ok", number |-> n, clients |-> TRUE,
                 fault |-> TRUE] : n \in 0..(finalBlock - 1)}
               \cup {[justifiedEpoch |-> 1, block |-> b, number |-> 0, clients |-> TRUE, fault |-> TRUE] :
                  b \in {"nil", "noindex"}}
               \cup {[justifiedEpoch |-> 1, block |-> "ok", number |-> n, clients |-> FALSE,
                      fault |-> TRUE] : n \in (finalBlock + 1)..MaxBlock}
          ELSE {})

\* The batch size NewDepositIndexer takes from the configured one (lines 46-49).
NewBatchSize(configured) == IF configured = 0 THEN DefaultBatchSize ELSE configured

\* NewDepositIndexer with ExecutionApi.DepositLogBatchSize = configured, on a
\* database whose explorer state holds the checkpoint stored.
IndexerInitFrom(configured, stored) ==
    /\ stateLoaded = FALSE
    /\ state = ZeroState
    /\ unfinalizedDeposits = EmptyMap
    /\ batchSize = NewBatchSize(configured)
    /\ db = [rows |-> EmptyBag, state |-> stored]
    /\ pc = "idle"
    /\ target = 0
    /\ forkIdx = 1
    /\ retryCount = 0
    /\ elHead = 0
    /\ result = "none"
    /\ tickInput = NoInput
    /\ lastBatch = NoBatch
    /\ recentLog = NoRecent
    /\ sessionRows = EmptyBag
    /\ ticks = 0
    /\ sessionTicks = 0
    /\ restarts = 0
    /\ maxFinalBlock = 0
    /\ faults = 0
    /\ attempt = NoAttempt

\* NewDepositIndexer on a database without a stored checkpoint.
IndexerInitWith(configured) == IndexerInitFrom(configured, ZeroState)

IndexerInit == IndexerInitWith(DepositLogBatchSize)

\* runDepositIndexer up to the first pass it enters (lines 92-125).
RunDepositIndexer ==
    /\ pc = "idle"
    /\ ticks < MaxTicks
    /\ \E st \in {IF stateLoaded THEN state ELSE loadState(db)} :
       \E in \in TickInputs(st.FinalBlock, faults < MaxFaults) :
       \E next \in {IF in.justifiedEpoch > 0
                    THEN IF in.block # "ok" THEN "error"
                         ELSE IF IsConsistencyFault(in.number, st.FinalBlock) THEN "error"
                         ELSE IF in.number > st.FinalBlock
                              THEN (IF in.clients THEN "finalized" ELSE "error")
                              ELSE "recent"
                    ELSE "recent"} :
           /\ tickInput' = [justifiedEpoch |-> in.justifiedEpoch,
                            finalized |-> in.justifiedEpoch > 0 /\ in.block = "ok",
                            number |-> IF in.justifiedEpoch > 0 /\ in.block = "ok"
                                       THEN in.number ELSE 0,
                            prev |-> result, faults0 |-> faults]
           /\ stateLoaded' = TRUE
           /\ state' = st
           /\ pc' = IF next = "error" THEN "idle" ELSE next
           /\ result' = IF next = "error" THEN "error" ELSE "running"
           /\ target' = IF next = "finalized" THEN in.number ELSE 0
           /\ maxFinalBlock' = IF st.FinalBlock > maxFinalBlock THEN st.FinalBlock ELSE maxFinalBlock
           /\ faults' = IF in.fault THEN faults + 1 ELSE faults
    /\ forkIdx' = 1
    /\ retryCount' = 0
    /\ elHead' = 0
    /\ lastBatch' = NoBatch
    /\ recentLog' = NoRecent
    /\ ticks' = ticks + 1
    /\ sessionTicks' = sessionTicks + 1
    /\ UNCHANGED <<unfinalizedDeposits, batchSize, db, sessionRows, restarts>>

\* The execution block numbers a fork head can have: the highest of the
\* chain and, for fork A, also 0 (a head block that carries no execution
\* block number).
HeadNumbers(f) == IF f = "A" THEN {0, MaxBlock} ELSE {MaxBlock}

\* The faults one batch of the finalized pass can meet: none, an RPC, decode
\* or lookup error, or one failing call of the insert loop.
FinalizedInputs(nRows, mayFail) ==
    {[rpcErr |-> FALSE, fault |-> [at |-> 0 - 1, kind |-> "none"]]}
    \cup (IF mayFail
          THEN {[rpcErr |-> TRUE, fault |-> [at |-> 0 - 1, kind |-> "none"]]}
               \cup {[rpcErr |-> FALSE, fault |-> x] : x \in BatchFaults(nRows) \ {[at |-> 0 - 1, kind |-> "none"]}}
          ELSE {})

\* A variant that goes on to the recent pass after a failed batch.
AfterBatchIgnoringError(err, finalBlock, finalizedBlockNumber) ==
    IF ~err /\ finalBlock < finalizedBlockNumber THEN "finalized" ELSE "recent"

\* Where the tick goes after a batch: back to the loop on an error (lines
\* 119-122 and 127), to the next batch (line 168), else to
\* processRecentBlocks (line 125).
AfterBatch(err, finalBlock, finalizedBlockNumber) ==
    IF err THEN "idle"
    ELSE IF finalBlock < finalizedBlockNumber THEN "finalized" ELSE "recent"

\* One batch of processFinalizedBlocks; the pass returns on the first error,
\* and runDepositIndexer goes on to processRecentBlocks when it is through.
ProcessFinalizedBlocks ==
    /\ pc = "finalized"
    /\ \E in \in FinalizedInputs(Len(FinalizedDepositTxs(
                        FilterLogs(FinalizedFork, state.FinalBlock + 1,
                                   ToBlock(state.FinalBlock, target, batchSize)))),
                                 faults < MaxFaults) :
       \E r \in {FinalizedBatch(state, db, unfinalizedDeposits, target, batchSize,
                                in.rpcErr, in.fault)} :
           /\ state' = r.state
           /\ db' = r.db
           /\ unfinalizedDeposits' = r.unf
           /\ lastBatch' = [ran |-> TRUE, err |-> r.err, rpcErr |-> r.rpcErr, from |-> r.from,
                            to |-> r.to,
                            indices |-> {r.txs[k].Index : k \in 1..Len(r.txs)}]
           /\ pc' = AfterBatch(r.err, r.state.FinalBlock, target)
           /\ result' = IF r.err THEN "error" ELSE "running"
           /\ maxFinalBlock' = IF r.state.FinalBlock > maxFinalBlock
                               THEN r.state.FinalBlock ELSE maxFinalBlock
           /\ faults' = IF in.rpcErr \/ in.fault.kind # "none" THEN faults + 1 ELSE faults
           /\ target' = IF ~r.err /\ r.state.FinalBlock < target THEN target ELSE 0
    /\ UNCHANGED <<stateLoaded, batchSize, forkIdx, retryCount, elHead, tickInput,
                   recentLog, sessionRows, ticks, sessionTicks, restarts>>

\* What one attempt of the recent pass of fork f can meet: the head lookup
\* (made before the first attempt, lines 293-303), the log response with at
\* most its first log delivered twice, the beacon lookups, an RPC or decode
\* error.  A missing head, a head with execution block number 0, a log
\* delivered twice and an RPC error are faults.
RecentInputs(f, mayFail) ==
    {in \in [headFound : BOOLEAN, head : HeadNumbers(f), dup : {0, 1}, rpcErr : BOOLEAN,
             bview : BeaconViews] :
        /\ retryCount > 0 => (in.headFound /\ in.head = elHead)
        /\ ~in.headFound => (in.head = MaxBlock /\ in.dup = 0 /\ ~in.rpcErr)
        /\ in.rpcErr => in.dup = 0
        /\ ~mayFail => (in.headFound /\ in.head = MaxBlock /\ in.dup = 0 /\ ~in.rpcErr)
        /\ in.head # MaxBlock => (in.dup = 0 /\ ~in.rpcErr)
        /\ in.dup <= Len(FilterLogs(f, state.FinalBlock + 1, RecentToBlock(in.head)))}

\* A variant in which the error of a fork ends processRecentBlocks.
IsLastForkOrError(err, done, idx) == done /\ (err \/ idx = Len(HeadForks))

\* The loop of processRecentBlocks (lines 279-288) is through: the pass of
\* the last fork head is done, with or without error.
IsLastFork(err, done, idx) == done /\ idx = Len(HeadForks)

\* One attempt of processRecentBlocksForFork for the fork at forkIdx.  An
\* error ends the fork's pass; processRecentBlocks logs it and goes on with
\* the next fork, and runDepositIndexer returns nil after the last one.
ProcessRecentBlocksForFork ==
    /\ pc = "recent"
    /\ \E f \in {HeadForks[forkIdx]} :
       \E in \in RecentInputs(f, faults < MaxFaults) :
       \E logs \in {RecentLogs(state, f, in.head, in.dup)} :
       \E fault \in IF in.headFound /\ in.head = MaxBlock /\ ~in.rpcErr /\ in.dup = 0
                       /\ faults < MaxFaults
                    THEN RecentFaults(Len(RecentDepositTxs(logs, unfinalizedDeposits,
                                                           HeadForkId(f), in.bview)))
                    ELSE {[at |-> 0 - 1, kind |-> "none"]} :
       \E r \in {IF in.headFound
                 THEN RecentAttempt(state, db, unfinalizedDeposits, f, in.head, in.dup,
                                    in.bview, in.rpcErr, fault)
                 ELSE [db |-> db, unf |-> unfinalizedDeposits, err |-> TRUE, txs |-> <<>>]} :
       \E done \in {r.err \/ retryCount + 1 >= MaxRetry} :
       \E last \in {IsLastFork(r.err, done, forkIdx)} :
           /\ db' = r.db
           /\ unfinalizedDeposits' = r.unf
           /\ sessionRows' = sessionRows (+) (r.db.rows (-) db.rows)
           /\ recentLog' =
                [delivered |-> recentLog.delivered \cup
                    (IF in.headFound /\ ~in.rpcErr
                     THEN {[Index |-> logs[k].Index, BlockHash |-> logs[k].BlockHash] :
                             k \in {j \in 1..Len(logs) : logs[j].Topic = DepositEventTopic}}
                     ELSE {}),
                 dup |-> recentLog.dup \/ (in.headFound /\ ~in.rpcErr /\ in.dup > 0),
                 failed |-> IF r.err THEN recentLog.failed \cup {f} ELSE recentLog.failed,
                 rpcErr |-> in.headFound /\ in.rpcErr,
                 toBlock |-> IF in.headFound THEN RecentToBlock(in.head) ELSE 0,
                 lookups |-> [h \in {r.txs[k].BlockRoot : k \in 1..Len(r.txs)} |-> in.bview[h]]]
           /\ elHead' = IF done THEN 0 ELSE in.head
           /\ retryCount' = IF done THEN 0 ELSE retryCount + 1
           /\ forkIdx' = IF last THEN 1 ELSE IF done THEN forkIdx + 1 ELSE forkIdx
           /\ pc' = IF last THEN "idle" ELSE "recent"
           /\ result' = IF last THEN "ok" ELSE "running"
           /\ faults' = IF ~in.headFound \/ in.head # MaxBlock \/ in.rpcErr \/ in.dup > 0
                           \/ fault.kind # "none"
                        THEN faults + 1 ELSE faults
    /\ lastBatch' = NoBatch
    /\ UNCHANGED <<stateLoaded, state, batchSize, target, tickInput, ticks,
                   sessionTicks, restarts, maxFinalBlock>>

\* The process is restarted between two ticks: NewDepositIndexer builds a new
\* indexer (no state loaded, an empty dedup map); the database is kept.
Restart ==
    /\ pc = "idle"
    /\ restarts < MaxRestarts
    /\ stateLoaded' = FALSE
    /\ state' = ZeroState
    /\ unfinalizedDeposits' = EmptyMap
    /\ sessionRows' = EmptyBag
    /\ sessionTicks' = 0
    /\ restarts' = restarts + 1
    /\ result' = "none"
    /\ lastBatch' = NoBatch
    /\ recentLog' = NoRecent
    /\ tickInput' = NoInput
    /\ UNCHANGED <<batchSize, db, pc, target, forkIdx, retryCount, elHead, ticks, maxFinalBlock,
                   faults>>

(***************************************************************************)
(* One call of processRecentBlocksForFork, statement by statement: the     *)
(* retry loop, its contexts and the transaction lookups of its logs.       *)
(***************************************************************************)
\* The transactions of the logs of a response.
AttemptTxs == {"t1", "t2"}

\* A log of a response: its transaction, and whether the loop passes it over
\* (another topic, line 342, or a pair of the dedup map, line 354).
AttemptLogKinds == [TxHash : AttemptTxs, skip : BOOLEAN]

\* The responses of FilterLogs.
AttemptLogs == UNION {[1..n -> AttemptLogKinds] : n \in 0..MaxLogs}

\* A variant that leaves the context of ctxCancel alive.
CancelContextNever(ctxs, ctxCancel) == ctxs

\* Lines 315-317 and 307-311: if ctxCancel != nil { ctxCancel() }.
CancelContext(ctxs, ctxCancel) ==
    IF ctxCancel # 0 THEN [ctxs EXCEPT ![ctxCancel] = FALSE] ELSE ctxs

\* Lines 358 and 207: the transaction of the log is not the one loaded last.
TxCacheMiss(txHash, logTxHash) == txHash = NoTx \/ txHash # logTxHash

\* Lines 305-313: the call enters the retry loop.
AttemptEnter ==
    /\ attempt.pc = "idle"
    /\ attempt' = [attempt EXCEPT !.pc = "cancel"]
    /\ UNCHANGED <<handlerVars, cacheVars>>

\* Lines 315-317: the context of the attempt before is cancelled.
AttemptCancelPrevious ==
    /\ attempt.pc = "cancel"
    /\ attempt' = [attempt EXCEPT !.pc = "context",
                                  !.ctxs = CancelContext(attempt.ctxs, attempt.ctxCancel)]
    /\ UNCHANGED <<handlerVars, cacheVars>>

\* Lines 318-319: ctx, cancel := context.WithCancel(...); ctxCancel = cancel.
AttemptNewContext ==
    /\ attempt.pc = "context"
    /\ attempt' = [attempt EXCEPT !.pc = "query",
                                  !.ctxs = Append(attempt.ctxs, TRUE),
                                  !.ctx = Len(attempt.ctxs) + 1,
                                  !.ctxCancel = Len(attempt.ctxs) + 1]
    /\ UNCHANGED <<handlerVars, cacheVars>>

\* Lines 321-339: the log query with ctx; an error returns.
AttemptLoadFilteredLogs ==
    /\ attempt.pc = "query"
    /\ \/ attempt' = [attempt EXCEPT !.pc = "return", !.err = TRUE]
       \/ \E logs \in AttemptLogs :
             attempt' = [attempt EXCEPT !.pc = "logs", !.logs = logs, !.idx = 1,
                                        !.txHash = NoTx, !.fetched = <<>>]
    /\ UNCHANGED <<handlerVars, cacheVars>>

\* Lines 341-404: one log of the response; a decoding or loading error
\* returns.
AttemptProcessLog ==
    /\ attempt.pc = "logs"
    /\ attempt.idx <= Len(attempt.logs)
    /\ LET log == attempt.logs[attempt.idx]
       IN IF log.skip
          THEN attempt' = [attempt EXCEPT !.idx = attempt.idx + 1]
          ELSE \/ attempt' = [attempt EXCEPT !.pc = "return", !.err = TRUE]
               \/ IF TxCacheMiss(attempt.txHash, log.TxHash)
                  THEN attempt' = [attempt EXCEPT !.idx = attempt.idx + 1,
                                                 !.txHash = log.TxHash,
                                                 !.fetched = Append(attempt.fetched, log.TxHash)]
                  ELSE attempt' = [attempt EXCEPT !.idx = attempt.idx + 1]
    /\ UNCHANGED <<handlerVars, cacheVars>>

\* Lines 406-431 and 313: the deposits of the attempt are stored; an error
\* returns, otherwise the loop goes on with retryCount + 1.
AttemptPersist ==
    /\ attempt.pc = "logs"
    /\ attempt.idx > Len(attempt.logs)
    /\ \/ /\ \E k \in 1..Len(attempt.logs) : ~attempt.logs[k].skip
          /\ attempt' = [attempt EXCEPT !.pc = "return", !.err = TRUE]
       \/ attempt' = [attempt EXCEPT !.retryCount = attempt.retryCount + 1,
                                     !.pc = IF attempt.retryCount + 1 < MaxRetry
                                            THEN "cancel" ELSE "return"]
    /\ UNCHANGED <<handlerVars, cacheVars>>

\* Lines 307-311 and 433: the call returns and the deferred function runs.
AttemptReturn ==
    /\ attempt.pc = "return"
    /\ attempt' = [attempt EXCEPT !.pc = "done",
                                  !.ctxs = CancelContext(attempt.ctxs, attempt.ctxCancel)]
    /\ UNCHANGED <<handlerVars, cacheVars>>

(***************************************************************************)
(* blockCache.                                                             *)
(***************************************************************************)
Roots == {"r1", "r2"}
Slots == 0..MaxSlot

\* A nil *phase0.Root.
NoRoot == "nil"

\* newBlock: a Block with its root and slot and nothing else known: no header
\* (parentRoot), no body (block), in no database, fork id 0, no memoized
\* dependent root.
newBlock(root, slot) ==
    [Root |-> root, Slot |-> slot, parentRoot |-> NoRoot, block |-> FALSE,
     isInFinalizedDb |-> FALSE, isInUnfinalizedDb |-> FALSE, forkId |-> 0,
     dependentRoot |-> NoRoot]

\* newBlockCache: empty maps, the slot bounds at their zero value.
newBlockCache ==
    [rootMap |-> [r \in {} |-> 0], slotMap |-> [sl \in {} |-> <<>>],
     highestSlot |-> 0, lowestSlot |-> 0]

\* A variant that inserts without looking the root up.
createOrGetBlockAlways(c, bs, root, slot) ==
    LET id == Len(bs) + 1
    IN [cache |-> [c EXCEPT
                     !.rootMap = [r \in DOMAIN c.rootMap \cup {root} |->
                                    IF r = root THEN id ELSE c.rootMap[r]],
                     !.slotMap = [sl \in DOMAIN c.slotMap \cup {slot} |->
                                    IF sl = slot
                                    THEN (IF slot \in DOMAIN c.slotMap
                                          THEN Append(c.slotMap[slot], id) ELSE <<id>>)
                                    ELSE c.slotMap[sl]]],
        blocks |-> Append(bs, newBlock(root, slot)), block |-> id, wasCreated |-> TRUE]

\* blockCache.createOrGetBlock (under the exclusive lock).
createOrGetBlock(c, bs, root, slot) ==
    IF root \in DOMAIN c.rootMap
    THEN [cache |-> c, blocks |-> bs, block |-> c.rootMap[root], wasCreated |-> FALSE]
    ELSE LET id == Len(bs) + 1
         IN [cache |->
                [rootMap |-> [r \in DOMAIN c.rootMap \cup {root} |->
                                IF r = root THEN id ELSE c.rootMap[r]],
                 slotMap |-> [sl \in DOMAIN c.slotMap \cup {slot} |->
                                IF sl = slot
                                THEN (IF slot \in DOMAIN c.slotMap
                                      THEN Append(c.slotMap[slot], id) ELSE <<id>>)
                                ELSE c.slotMap[sl]],
                 highestSlot |-> IF slot > c.highestSlot THEN slot ELSE c.highestSlot,
                 lowestSlot |-> IF c.lowestSlot < 0 \/ slot < c.lowestSlot
                                THEN slot ELSE c.lowestSlot],
             blocks |-> Append(bs, newBlock(root, slot)), block |-> id, wasCreated |-> TRUE]

\* slotBlocks without its first element equal to id (lines 764-769).
RemoveFirst(slotBlocks, id) ==
    IF \E k \in 1..Len(slotBlocks) : slotBlocks[k] = id
    THEN LET i == CHOOSE k \in 1..Len(slotBlocks) :
                    slotBlocks[k] = id /\ \A j \in 1..(k - 1) : slotBlocks[j] # id
         IN SubSeq(slotBlocks, 1, i - 1) \o SubSeq(slotBlocks, i + 1, Len(slotBlocks))
    ELSE slotBlocks

\* A variant that leaves the emptied bucket in the slot map.
removeBlockKeepBucket(c, bs, id) ==
    LET block == bs[id]
    IN [c EXCEPT
          !.rootMap = [r \in DOMAIN c.rootMap \ {block.Root} |-> c.rootMap[r]],
          !.slotMap = IF block.Slot \in DOMAIN c.slotMap
                      THEN [c.slotMap EXCEPT ![block.Slot] = RemoveFirst(@, id)]
                      ELSE c.slotMap]

\* blockCache.removeBlock (under the exclusive lock): the root is deleted
\* from the root index, the instance from the bucket of its slot.
removeBlock(c, bs, id) ==
    LET block == bs[id]
        slotBlocks == IF block.Slot \in DOMAIN c.slotMap THEN c.slotMap[block.Slot] ELSE <<>>
    IN [c EXCEPT
          !.rootMap = [r \in DOMAIN c.rootMap \ {block.Root} |-> c.rootMap[r]],
          !.slotMap = IF Len(slotBlocks) = 1 /\ slotBlocks[1] = id
                      THEN [sl \in DOMAIN c.slotMap \ {block.Slot} |-> c.slotMap[sl]]
                      ELSE IF Len(slotBlocks) > 1
                      THEN [c.slotMap EXCEPT ![block.Slot] = RemoveFirst(slotBlocks, id)]
                      ELSE c.slotMap]

NoCall == [op |-> "none", root |-> "r1", slot |-> 0, block |-> 0, wasCreated |-> FALSE]

CacheInit ==
    /\ cache = newBlockCache
    /\ blocks = <<>>
    /\ lastCall = NoCall

\* A caller calls createOrGetBlock(root, slot).
CreateOrGetBlock ==
    \E root \in Roots, slot \in Slots :
       /\ root \in DOMAIN cache.rootMap \/ Len(blocks) < MaxInstances
       /\ \E r \in {createOrGetBlock(cache, blocks, root, slot)} :
            /\ cache' = r.cache
            /\ blocks' = r.blocks
            /\ lastCall' = [op |-> "createOrGetBlock", root |-> root, slot |-> slot,
                            block |-> r.block, wasCreated |-> r.wasCreated]
       /\ UNCHANGED indexerVars

\* A caller calls removeBlock with a *Block it holds: one the cache tracks
\* or one that was evicted before.
RemoveBlock ==
    \E id \in 1..Len(blocks) :
       /\ cache' = removeBlock(cache, blocks, id)
       /\ lastCall' = [op |-> "removeBlock", root |-> blocks[id].Root, slot |-> blocks[id].Slot,
                       block |-> id, wasCreated |-> FALSE]
       /\ UNCHANGED <<blocks, indexerVars>>

(***************************************************************************)
(* blockCache queries over a chain of beacon blocks.                       *)
(***************************************************************************)
\* The beacon blocks of the modelled chain: a0 <- a1 <- a2 <- a4 (slot 3 is
\* skipped) and the fork a1 <- b2 in the slot of a2.  A root fixes its slot
\* and its parent; the parent root of the genesis block a0 is the zero root,
\* which no block has.
ChainRoots == {"a0", "a1", "a2", "a4", "b2"}
ZeroRoot == "zero"
ChainSlot(root) ==
    CASE root = "a0" -> 0 [] root = "a1" -> 1 [] root = "a2" -> 2
      [] root = "a4" -> 4 [] root = "b2" -> 2
ChainParent(root) ==
    CASE root = "a0" -> ZeroRoot [] root = "a1" -> "a0" [] root = "a2" -> "a1"
      [] root = "a4" -> "a2" [] root = "b2" -> "a1"
\* The fork of a block: b2 is on fork 1, the other blocks on fork 0.
ChainFork(root) == IF root = "b2" THEN 1 ELSE 0
\* The slot floors passed to getPruningBlocks.
PruneSlots == {0, 2, 3, 5}

\* Block.GetParentRoot: nil until the header is known.
GetParentRoot(block) == block.parentRoot

\* blockCache.getBlockByRoot: the instance of the root index, 0 for nil.
getBlockByRoot(c, root) == IF root \in DOMAIN c.rootMap THEN c.rootMap[root] ELSE 0

RECURSIVE CanonicalWalkLate(_, _, _, _, _, _, _)
\* A variant of the walk that counts the hop after comparing the parent root.
CanonicalWalkLate(c, bs, blockRoot, blockSlot, canonicalBlock, distance, maxDistance) ==
    IF bs[canonicalBlock].Slot < blockSlot THEN [ok |-> FALSE, distance |-> 0]
    ELSE LET parentRoot == GetParentRoot(bs[canonicalBlock])
         IN IF parentRoot = NoRoot THEN [ok |-> FALSE, distance |-> 0]
            ELSE IF maxDistance > 0 /\ distance + 1 > maxDistance
            THEN [ok |-> FALSE, distance |-> 0]
            ELSE IF parentRoot = blockRoot THEN [ok |-> TRUE, distance |-> distance]
            ELSE IF getBlockByRoot(c, parentRoot) = 0 THEN [ok |-> FALSE, distance |-> 0]
            ELSE CanonicalWalkLate(c, bs, blockRoot, blockSlot, getBlockByRoot(c, parentRoot),
                                   distance + 1, maxDistance)

RECURSIVE CanonicalWalk(_, _, _, _, _, _, _)
\* The loop of getCanonicalDistance (lines 815-838), entered with
\* canonicalBlock # nil.
CanonicalWalk(c, bs, blockRoot, blockSlot, canonicalBlock, distance, maxDistance) ==
    IF bs[canonicalBlock].Slot < blockSlot THEN [ok |-> FALSE, distance |-> 0]
    ELSE LET parentRoot == GetParentRoot(bs[canonicalBlock])
         IN IF parentRoot = NoRoot THEN [ok |-> FALSE, distance |-> 0]
            ELSE IF maxDistance > 0 /\ distance + 1 > maxDistance
            THEN [ok |-> FALSE, distance |-> 0]
            ELSE IF parentRoot = blockRoot THEN [ok |-> TRUE, distance |-> distance + 1]
            ELSE IF getBlockByRoot(c, parentRoot) = 0 THEN [ok |-> FALSE, distance |-> 0]
            ELSE CanonicalWalk(c, bs, blockRoot, blockSlot, getBlockByRoot(c, parentRoot),
                               distance + 1, maxDistance)

\* A variant that walks without the bound.
getCanonicalDistanceUnbounded(c, bs, blockRoot, head, maxDistance) ==
    IF getBlockByRoot(c, blockRoot) = 0 THEN [ok |-> FALSE, distance |-> 0]
    ELSE IF getBlockByRoot(c, head) = 0 THEN [ok |-> FALSE, distance |-> 0]
    ELSE IF bs[getBlockByRoot(c, head)].Root = blockRoot THEN [ok |-> TRUE, distance |-> 0]
    ELSE CanonicalWalk(c, bs, blockRoot, bs[getBlockByRoot(c, blockRoot)].Slot,
                       getBlockByRoot(c, head), 0, 0)

\* blockCache.getCanonicalDistance.
getCanonicalDistance(c, bs, blockRoot, head, maxDistance) ==
    IF getBlockByRoot(c, blockRoot) = 0 THEN [ok |-> FALSE, distance |-> 0]
    ELSE IF getBlockByRoot(c, head) = 0 THEN [ok |-> FALSE, distance |-> 0]
    ELSE IF bs[getBlockByRoot(c, head)].Root = blockRoot THEN [ok |-> TRUE, distance |-> 0]
    ELSE CanonicalWalk(c, bs, blockRoot, bs[getBlockByRoot(c, blockRoot)].Slot,
                       getBlockByRoot(c, head), 0, maxDistance)

\* blockCache.isCanonicalBlock.
isCanonicalBlock(c, bs, blockRoot, head) == getCanonicalDistance(c, bs, blockRoot, head, 0).ok

\* A variant that also takes the blocks of slot minInMemorySlot.
getPruningBlocksInclusive(c, bs, minInMemorySlot) ==
    UNION {{c.slotMap[sl][k] : k \in {j \in 1..Len(c.slotMap[sl]) : bs[c.slotMap[sl][j]].block}} :
              sl \in {x \in DOMAIN c.slotMap : ~(x > minInMemorySlot)}}

\* blockCache.getPruningBlocks; the order of the result is that of the map
\* iteration, so the result is taken as a set.
getPruningBlocks(c, bs, minInMemorySlot) ==
    UNION {{c.slotMap[sl][k] : k \in {j \in 1..Len(c.slotMap[sl]) : bs[c.slotMap[sl][j]].block}} :
              sl \in {x \in DOMAIN c.slotMap : ~(x >= minInMemorySlot)}}

\* A variant that looks for children only when the parent is cached.
getBlocksByParentRootOfKnown(c, bs, parentRoot) ==
    IF getBlockByRoot(c, parentRoot) = 0 THEN {}
    ELSE UNION {{c.slotMap[sl][k] :
                   k \in {j \in 1..Len(c.slotMap[sl]) :
                            /\ GetParentRoot(bs[c.slotMap[sl][j]]) # NoRoot
                            /\ GetParentRoot(bs[c.slotMap[sl][j]]) = parentRoot}} :
                sl \in {x \in DOMAIN c.slotMap : ~(x <= bs[getBlockByRoot(c, parentRoot)].Slot)}}

\* blockCache.getBlocksByParentRoot (lines 575-600).  The buckets are visited
\* in the order of a map iteration, so the result is taken as a set.
getBlocksByParentRoot(c, bs, parentRoot) ==
    LET parentBlock == getBlockByRoot(c, parentRoot)
    IN UNION {{c.slotMap[sl][k] :
                 k \in {j \in 1..Len(c.slotMap[sl]) :
                          /\ GetParentRoot(bs[c.slotMap[sl][j]]) # NoRoot
                          /\ GetParentRoot(bs[c.slotMap[sl][j]]) = parentRoot}} :
              sl \in {x \in DOMAIN c.slotMap :
                        ~(parentBlock # 0 /\ x <= bs[parentBlock].Slot)}}

\* forkId == nil: no fork filter.
AnyFork == 0 - 1

\* The keys of a slot map in descending order (lines 727-733).
RECURSIVE SortedSlots(_)
SortedSlots(slots) ==
    IF slots = {} THEN <<>>
    ELSE LET top == CHOOSE x \in slots : \A y \in slots : y <= x
         IN <<top>> \o SortedSlots(slots \ {top})

\* A variant that stops one block after the limit.
LimitReachedLate(n, limit) == limit > 0 /\ n > limit

\* The test of line 745 after a block was appended.
LimitReached(n, limit) == limit > 0 /\ n >= limit

\* The loops of lines 735-749 from entry k of the bucket of slots[i] on, with
\* the blocks appended so far.
RECURSIVE LatestWalk(_, _, _, _, _, _, _)
LatestWalk(c, bs, slots, i, k, res, args) ==
    IF i > Len(slots) THEN res
    ELSE IF k > Len(c.slotMap[slots[i]]) THEN LatestWalk(c, bs, slots, i + 1, 1, res, args)
    ELSE LET block == bs[c.slotMap[slots[i]][k]]
         IN IF ~block.block /\ ~block.isInFinalizedDb /\ ~block.isInUnfinalizedDb
            THEN LatestWalk(c, bs, slots, i, k + 1, res, args)
            ELSE IF args.forkId # AnyFork /\ block.forkId # args.forkId
            THEN LatestWalk(c, bs, slots, i, k + 1, res, args)
            ELSE IF LimitReached(Len(res) + 1, args.limit)
            THEN Append(res, c.slotMap[slots[i]][k])
            ELSE LatestWalk(c, bs, slots, i, k + 1, Append(res, c.slotMap[slots[i]][k]), args)

\* blockCache.getLatestBlocks (lines 720-751).
getLatestBlocks(c, bs, limit, forkId) ==
    LatestWalk(c, bs, SortedSlots(DOMAIN c.slotMap), 1, 1, <<>>,
               [limit |-> limit, forkId |-> forkId])

\* A block of the chain is observed: createOrGetBlock with the root's slot.
ChainAddBlock ==
    \E root \in ChainRoots :
       /\ root \in DOMAIN cache.rootMap \/ Len(blocks) < MaxInstances
       /\ \E r \in {createOrGetBlock(cache, blocks, root, ChainSlot(root))} :
            /\ cache' = r.cache
            /\ blocks' = r.blocks
       /\ lastCall' = NoCall
       /\ UNCHANGED indexerVars

\* The pruning caller evicts a block that its getPruningBlocks call returned
\* and that the cache still tracks.
ChainRemoveBlock ==
    /\ lastCall.op = "getPruningBlocks"
    /\ \E id \in lastCall.res :
          /\ getBlockByRoot(cache, blocks[id].Root) = id
          /\ cache' = removeBlock(cache, blocks, id)
    /\ UNCHANGED <<blocks, lastCall, indexerVars>>

\* The header of a tracked block becomes available: its parent root is known.
ChainSetHeader ==
    \E root \in DOMAIN cache.rootMap :
       /\ blocks[cache.rootMap[root]].parentRoot = NoRoot
       /\ blocks' = [blocks EXCEPT ![cache.rootMap[root]].parentRoot = ChainParent(root)]
       /\ lastCall' = NoCall
       /\ UNCHANGED <<cache, indexerVars>>

\* The body of a tracked block is loaded.
ChainSetBlock ==
    \E root \in DOMAIN cache.rootMap :
       /\ ~blocks[cache.rootMap[root]].block
       /\ blocks' = [blocks EXCEPT ![cache.rootMap[root]].block = TRUE]
       /\ lastCall' = NoCall
       /\ UNCHANGED <<cache, indexerVars>>

\* A caller calls getCanonicalDistance(blockRoot, head, maxDistance) with the
\* root of a head it got from the cache.  lastCall is a query on the cache as
\* it is: a change of the cache clears it, and a further query on the same
\* cache leads to a state that a first query reaches.
GetCanonicalDistance ==
    /\ lastCall.op = "none"
    /\ \E blockRoot \in ChainRoots, head \in DOMAIN cache.rootMap, maxDistance \in 0..MaxDistanceArg :
       /\ lastCall' = [op |-> "getCanonicalDistance", root |-> blockRoot, head |-> head,
                       maxDistance |-> maxDistance,
                       res |-> getCanonicalDistance(cache, blocks, blockRoot, head, maxDistance)]
       /\ UNCHANGED <<cache, blocks, indexerVars>>

(***************************************************************************)
(* getCanonicalDistance hop by hop.  Each getBlockByRoot of the call takes *)
(* the shared lock on its own, so other callers insert and remove blocks   *)
(* between two lookups of the walk.                                        *)
(***************************************************************************)
\* The blocks of the walk: a2 on a1 on a0.
WalkRoots == {"a0", "a1", "a2"}

\* Whether the walk of lastCall is under way.
Walking == lastCall.op = "canonicalWalk" /\ lastCall.pc # "done"

\* Another caller observes a block of WalkRoots; the header of the newest
\* block, a2, may still be missing.
WalkCreateBlock ==
    \E root \in WalkRoots, header \in BOOLEAN :
       /\ header \/ root = "a2"
       /\ root \notin DOMAIN cache.rootMap
       /\ Len(blocks) < MaxInstances
       /\ \E r \in {createOrGetBlock(cache, blocks, root, ChainSlot(root))} :
            /\ cache' = r.cache
            /\ blocks' = IF header
                         THEN [r.blocks EXCEPT ![r.block].parentRoot = ChainParent(root)]
                         ELSE r.blocks
            /\ lastCall' = IF Walking
                           THEN [lastCall EXCEPT !.held = lastCall.held + 1]
                           ELSE NoCall
       /\ UNCHANGED indexerVars

\* Another caller evicts a block the cache tracks.
WalkRemoveBlock ==
    \E root \in DOMAIN cache.rootMap :
       /\ cache' = removeBlock(cache, blocks, cache.rootMap[root])
       /\ lastCall' = IF Walking THEN lastCall ELSE NoCall
       /\ UNCHANGED <<blocks, indexerVars>>

\* Lines 800-803: the call starts and looks up blockRoot.  held counts the
\* blocks the cache holds at some time of the call, created the blocks
\* created before it.
WalkStart ==
    /\ ~Walking
    /\ \E blockRoot \in WalkRoots, head \in WalkRoots, maxDistance \in 0..MaxDistanceArg :
       \E block \in {getBlockByRoot(cache, blockRoot)} :
          lastCall' = [op |-> "canonicalWalk", pc |-> IF block = 0 THEN "done" ELSE "head",
                       root |-> blockRoot, head |-> head, maxDistance |-> maxDistance,
                       block |-> block, canonicalBlock |-> 0, distance |-> 0, hops |-> 0,
                       held |-> Cardinality(DOMAIN cache.rootMap),
                       created |-> Len(blocks),
                       res |-> [ok |-> FALSE, distance |-> 0]]
    /\ UNCHANGED <<cache, blocks, indexerVars>>

\* Lines 805-813: the head is looked up and compared with blockRoot.
WalkHead ==
    /\ Walking /\ lastCall.pc = "head"
    /\ \E canonicalBlock \in {getBlockByRoot(cache, lastCall.head)} :
          lastCall' =
             IF canonicalBlock = 0 THEN [lastCall EXCEPT !.pc = "done"]
             ELSE IF blocks[canonicalBlock].Root = lastCall.root
             THEN [lastCall EXCEPT !.pc = "done", !.res = [ok |-> TRUE, distance |-> 0]]
             ELSE [lastCall EXCEPT !.pc = "loop", !.canonicalBlock = canonicalBlock]
    /\ UNCHANGED <<cache, blocks, indexerVars>>

\* A variant that stays with the block it has.
NextCanonicalBlockStay(c, canonicalBlock, parentRoot) == canonicalBlock

\* Line 833: canonicalBlock = cache.getBlockByRoot(*parentRoot).
NextCanonicalBlock(c, canonicalBlock, parentRoot) == getBlockByRoot(c, parentRoot)

\* One iteration of the loop of lines 813-838 for the walk w.
CanonicalHop(c, bs, w) ==
    LET hop == [w EXCEPT !.hops = w.hops + 1]
        parentRoot == GetParentRoot(bs[w.canonicalBlock])
        next == NextCanonicalBlock(c, w.canonicalBlock, parentRoot)
    IN IF bs[w.canonicalBlock].Slot < bs[w.block].Slot THEN [hop EXCEPT !.pc = "done"]
       ELSE IF parentRoot = NoRoot THEN [hop EXCEPT !.pc = "done"]
       ELSE IF w.maxDistance > 0 /\ w.distance + 1 > w.maxDistance
       THEN [hop EXCEPT !.pc = "done", !.distance = w.distance + 1]
       ELSE IF parentRoot = w.root
       THEN [hop EXCEPT !.pc = "done", !.distance = w.distance + 1,
                        !.res = [ok |-> TRUE, distance |-> w.distance + 1]]
       ELSE IF next = 0 THEN [hop EXCEPT !.pc = "done", !.distance = w.distance + 1]
       ELSE [hop EXCEPT !.distance = w.distance + 1, !.canonicalBlock = next]

\* The call goes through one iteration of its loop.
WalkHop ==
    /\ Walking /\ lastCall.pc = "loop"
    /\ lastCall' = CanonicalHop(cache, blocks, lastCall)
    /\ UNCHANGED <<cache, blocks, indexerVars>>

\* The blocks of the latest-blocks view: two blocks of slot 2 on two forks
\* and their parent.
LatestRoots == {"a1", "a2", "b2"}

\* A block of LatestRoots is observed.
LatestAddBlock ==
    \E root \in LatestRoots :
       /\ root \in DOMAIN cache.rootMap \/ Len(blocks) < MaxInstances
       /\ \E r \in {createOrGetBlock(cache, blocks, root, ChainSlot(root))} :
            /\ cache' = r.cache
            /\ blocks' = r.blocks
       /\ lastCall' = NoCall
       /\ UNCHANGED indexerVars

\* A tracked block is written to the finalized or to the unfinalized
\* database, or is assigned the fork it belongs to.
ChainSetPersisted ==
    \E root \in DOMAIN cache.rootMap :
    \E b \in {blocks[cache.rootMap[root]]} :
    \E nb \in {[b EXCEPT !.isInFinalizedDb = TRUE], [b EXCEPT !.isInUnfinalizedDb = TRUE],
                [b EXCEPT !.forkId = ChainFork(root)]} :
       /\ nb # b
       /\ blocks' = [blocks EXCEPT ![cache.rootMap[root]] = nb]
       /\ lastCall' = NoCall
       /\ UNCHANGED <<cache, indexerVars>>

\* A caller calls getLatestBlocks(limit, forkId).
GetLatestBlocks ==
    /\ lastCall.op = "none"
    /\ \E limit \in 0..MaxLimit, forkId \in {AnyFork, 0, 1} :
          lastCall' = [op |-> "getLatestBlocks", limit |-> limit, forkId |-> forkId,
                       res |-> getLatestBlocks(cache, blocks, limit, forkId)]
    /\ UNCHANGED <<cache, blocks, indexerVars>>

(***************************************************************************)
(* blockCache.getDependentBlock.  The finalized database holds the headers *)
(* of a prefix of the chain, and a client either serves the header of      *)
(* every block of the chain or fails.                                      *)
(***************************************************************************)
\* Slots per epoch of the modelled chain: a0, a1, a2 and b2 are in epoch 0,
\* a4 is in epoch 1.
SlotsPerEpoch == 4

\* chainState.EpochOfSlot.
EpochOfSlot(slot) == slot \div SlotsPerEpoch

\* The roots db.GetBlockHeadByRoot can know.
DbViews == {{}, {"a0"}, {"a0", "a1"}}

\* Lines 881-900 (and 846-865): the block of a root is looked up in the
\* cache, then in the finalized database, then, with a client, by one header
\* request.  trace lists the lookups made.
LookupBlock(c, bs, root, client, dbHeads, net) ==
    LET id == getBlockByRoot(c, root)
        t1 == <<[kind |-> "cache", root |-> root, hit |-> id # 0]>>
        t2 == t1 \o <<[kind |-> "db", root |-> root, hit |-> root \in dbHeads]>>
        t3 == t2 \o <<[kind |-> "fetch", root |-> root, hit |-> net]>>
    IN IF id # 0
       THEN [found |-> TRUE, slot |-> bs[id].Slot, parentRoot |-> GetParentRoot(bs[id]),
             fetched |-> FALSE, trace |-> t1]
       ELSE IF root \in dbHeads
       THEN [found |-> TRUE, slot |-> ChainSlot(root), parentRoot |-> ChainParent(root),
             fetched |-> FALSE, trace |-> t2]
       ELSE IF client
       THEN [found |-> net, slot |-> ChainSlot(root), parentRoot |-> ChainParent(root),
             fetched |-> TRUE, trace |-> t3]
       ELSE [found |-> FALSE, slot |-> 0, parentRoot |-> NoRoot, fetched |-> FALSE,
             trace |-> t2]

\* A variant that keeps the client after a header request.
ClientAfterFetchKept(client) == client

\* Line 894: client = nil after the header request.
ClientAfterFetch(client) == FALSE

\* The loop of lines 876-912 from parentRoot on.
RECURSIVE DependentWalk(_, _, _, _, _, _, _, _)
DependentWalk(c, bs, parentRoot, blockEpoch, client, dbHeads, net, trace) ==
    IF parentRoot = NoRoot THEN [root |-> NoRoot, trace |-> trace]
    ELSE LET l == LookupBlock(c, bs, parentRoot, client, dbHeads, net)
         IN IF ~l.found THEN [root |-> NoRoot, trace |-> trace \o l.trace]
            ELSE IF EpochOfSlot(l.slot) < blockEpoch \/ l.slot = 0
            THEN [root |-> parentRoot, trace |-> trace \o l.trace]
            ELSE DependentWalk(c, bs, l.parentRoot, blockEpoch,
                               IF l.fetched THEN ClientAfterFetch(client) ELSE client,
                               dbHeads, net, trace \o l.trace)

\* blockCache.getDependentBlock for the Block instance id: the root of the
\* block returned (NoRoot for nil), the blocks with the memoized dependent
\* root, and the lookups made.
getDependentBlock(c, bs, id, client, dbHeads, net) ==
    IF bs[id].dependentRoot # NoRoot
    THEN LET l == LookupBlock(c, bs, bs[id].dependentRoot, client, dbHeads, net)
         IN [root |-> IF l.found THEN bs[id].dependentRoot ELSE NoRoot,
             blocks |-> bs, trace |-> l.trace]
    ELSE IF bs[id].Slot = 0 THEN [root |-> bs[id].Root, blocks |-> bs, trace |-> <<>>]
    ELSE LET w == DependentWalk(c, bs, GetParentRoot(bs[id]), EpochOfSlot(bs[id].Slot),
                                client, dbHeads, net, <<>>)
         IN [root |-> w.root,
             blocks |-> IF w.root # NoRoot THEN [bs EXCEPT ![id].dependentRoot = w.root]
                        ELSE bs,
             trace |-> w.trace]

\* The blocks the callers of getDependentBlock track.
DependentRoots == {"a0", "a1", "a2", "a4"}

\* A block of DependentRoots is observed.
DependentAddBlock ==
    \E root \in DependentRoots :
       /\ root \in DOMAIN cache.rootMap \/ Len(blocks) < MaxInstances
       /\ \E r \in {createOrGetBlock(cache, blocks, root, ChainSlot(root))} :
            /\ cache' = r.cache
            /\ blocks' = r.blocks
       /\ lastCall' = NoCall
       /\ UNCHANGED indexerVars

\* A caller calls getDependentBlock(chainState, block, client) with a block
\* the cache tracks.
GetDependentBlock ==
    \E root \in DOMAIN cache.rootMap, dbHeads \in DbViews,
       cl \in {[client |-> FALSE, net |-> FALSE], [client |-> TRUE, net |-> FALSE],
               [client |-> TRUE, net |-> TRUE]} :
    \E r \in {getDependentBlock(cache, blocks, cache.rootMap[root], cl.client, dbHeads, cl.net)} :
       /\ blocks' = r.blocks
       /\ lastCall' = [op |-> "getDependentBlock", root |-> root, client |-> cl.client,
                       db |-> dbHeads, memo |-> blocks[cache.rootMap[root]].dependentRoot,
                       res |-> r.root, trace |-> r.trace]
       /\ UNCHANGED <<cache, indexerVars>>

\* A caller calls getBlocksByParentRoot(parentRoot).
GetBlocksByParentRoot ==
    /\ lastCall.op = "none"
    /\ \E parentRoot \in ChainRoots \cup {ZeroRoot} :
          lastCall' = [op |-> "getBlocksByParentRoot", root |-> parentRoot,
                       res |-> getBlocksByParentRoot(cache, blocks, parentRoot)]
    /\ UNCHANGED <<cache, blocks, indexerVars>>

\* A caller calls getPruningBlocks(minInMemorySlot).
GetPruningBlocks ==
    \E minInMemorySlot \in PruneSlots :
       /\ lastCall' = [op |-> "getPruningBlocks", minSlot |-> minInMemorySlot,
                       res |-> getPruningBlocks(cache, blocks, minInMemorySlot)]
       /\ UNCHANGED <<cache, blocks, indexerVars>>

(***************************************************************************)
(* blockCache called by concurrent goroutines: every call is a sequence of *)
(* steps, one per statement that takes or releases cache.cacheMutex or     *)
(* reads or writes one of the maps.                                        *)
(***************************************************************************)
Procs == {1, 2}

NoProc == [pc |-> "idle", root |-> "r1", slot |-> 0, block |-> 0, wasCreated |-> FALSE]

LockInit ==
    /\ cacheMutex = [writer |-> 0, readers |-> {}]
    /\ procs = [p \in Procs |-> NoProc]

\* A lock that is granted whoever holds it.
CanLockAlways(mu) == TRUE

\* sync.RWMutex.Lock returns: no goroutine holds the lock in either mode.
CanLock(mu) == mu.writer = 0 /\ mu.readers = {}

\* sync.RWMutex.RLock returns: no goroutine holds the exclusive lock.
CanRLock(mu) == mu.writer = 0

\* createOrGetBlock, line 526: the exclusive lock is taken.
CreateLock(p) ==
    /\ procs[p].pc = "idle"
    /\ CanLock(cacheMutex)
    /\ \E root \in Roots, slot \in Slots :
          /\ root \in DOMAIN cache.rootMap \/ Len(blocks) < MaxInstances
          /\ procs' = [procs EXCEPT ![p] = [pc |-> "lookup", root |-> root, slot |-> slot,
                                            block |-> 0, wasCreated |-> FALSE]]
    /\ cacheMutex' = [cacheMutex EXCEPT !.writer = p]
    /\ UNCHANGED <<indexerVars, cacheVars>>

\* createOrGetBlock, lines 529-531: the root is looked up.
CreateLookup(p) ==
    /\ procs[p].pc = "lookup"
    /\ procs' = [procs EXCEPT ![p] =
                   IF getBlockByRoot(cache, procs[p].root) # 0
                   THEN [@ EXCEPT !.pc = "unlock",
                                  !.block = getBlockByRoot(cache, procs[p].root)]
                   ELSE [@ EXCEPT !.pc = "insertRoot"]]
    /\ UNCHANGED <<indexerVars, cacheVars, cacheMutex>>

\* createOrGetBlock, lines 533-534: newBlock, and the root index gets it.
CreateInsertRoot(p) ==
    /\ procs[p].pc = "insertRoot"
    /\ \E id \in {Len(blocks) + 1}, root \in {procs[p].root} :
          /\ blocks' = Append(blocks, newBlock(root, procs[p].slot))
          /\ cache' = [cache EXCEPT
                         !.rootMap = [r \in DOMAIN cache.rootMap \cup {root} |->
                                        IF r = root THEN id ELSE cache.rootMap[r]]]
          /\ procs' = [procs EXCEPT ![p] = [@ EXCEPT !.pc = "insertSlot", !.block = id]]
    /\ UNCHANGED <<indexerVars, lastCall, cacheMutex>>

\* createOrGetBlock, lines 536-550: the bucket of the slot gets the block and
\* the slot bounds are updated.
CreateInsertSlot(p) ==
    /\ procs[p].pc = "insertSlot"
    /\ \E id \in {procs[p].block}, slot \in {procs[p].slot} :
          cache' = [cache EXCEPT
                      !.slotMap = [sl \in DOMAIN cache.slotMap \cup {slot} |->
                                     IF sl = slot
                                     THEN (IF slot \in DOMAIN cache.slotMap
                                           THEN Append(cache.slotMap[slot], id) ELSE <<id>>)
                                     ELSE cache.slotMap[sl]],
                      !.highestSlot = IF slot > cache.highestSlot THEN slot ELSE @,
                      !.lowestSlot = IF cache.lowestSlot < 0 \/ slot < cache.lowestSlot
                                     THEN slot ELSE @]
    /\ procs' = [procs EXCEPT ![p] = [@ EXCEPT !.pc = "unlock", !.wasCreated = TRUE]]
    /\ UNCHANGED <<indexerVars, blocks, lastCall, cacheMutex>>

\* The deferred cacheMutex.Unlock of createOrGetBlock and removeBlock: the
\* call returns.
Unlock(p) ==
    /\ procs[p].pc = "unlock"
    /\ cacheMutex' = [cacheMutex EXCEPT !.writer = 0]
    /\ procs' = [procs EXCEPT ![p] = [@ EXCEPT !.pc = "done"]]
    /\ UNCHANGED <<indexerVars, cacheVars>>

\* getBlockByRoot, line 555: the shared lock is taken.
GetRLock(p) ==
    /\ procs[p].pc = "idle"
    /\ CanRLock(cacheMutex)
    /\ \E root \in Roots :
          procs' = [procs EXCEPT ![p] = [pc |-> "read", root |-> root, slot |-> 0,
                                         block |-> 0, wasCreated |-> FALSE]]
    /\ cacheMutex' = [cacheMutex EXCEPT !.readers = @ \cup {p}]
    /\ UNCHANGED <<indexerVars, cacheVars>>

\* getBlockByRoot, line 558: the root index is read.
GetRead(p) ==
    /\ procs[p].pc = "read"
    /\ procs' = [procs EXCEPT ![p] =
                   [@ EXCEPT !.pc = "runlock", !.block = getBlockByRoot(cache, procs[p].root)]]
    /\ UNCHANGED <<indexerVars, cacheVars, cacheMutex>>

\* The deferred cacheMutex.RUnlock of getBlockByRoot: the call returns.
RUnlock(p) ==
    /\ procs[p].pc = "runlock"
    /\ cacheMutex' = [cacheMutex EXCEPT !.readers = @ \ {p}]
    /\ procs' = [procs EXCEPT ![p] = [@ EXCEPT !.pc = "got"]]
    /\ UNCHANGED <<indexerVars, cacheVars>>

\* removeBlock, line 755, called with the *Block the goroutine holds.
RemoveLock(p) ==
    /\ procs[p].pc = "idle"
    /\ procs[p].block # 0
    /\ CanLock(cacheMutex)
    /\ procs' = [procs EXCEPT ![p] = [@ EXCEPT !.pc = "removeRoot"]]
    /\ cacheMutex' = [cacheMutex EXCEPT !.writer = p]
    /\ UNCHANGED <<indexerVars, cacheVars>>

\* removeBlock, line 758: the root of the block leaves the root index.
RemoveRoot(p) ==
    /\ procs[p].pc = "removeRoot"
    /\ cache' = [cache EXCEPT
                   !.rootMap = [r \in DOMAIN cache.rootMap \ {blocks[procs[p].block].Root} |->
                                  cache.rootMap[r]]]
    /\ procs' = [procs EXCEPT ![p] = [@ EXCEPT !.pc = "removeSlot"]]
    /\ UNCHANGED <<indexerVars, blocks, lastCall, cacheMutex>>

\* removeBlock, lines 760-770: the block leaves the bucket of its slot.
RemoveSlot(p) ==
    /\ procs[p].pc = "removeSlot"
    /\ cache' = [cache EXCEPT
                   !.slotMap = removeBlock(cache, blocks, procs[p].block).slotMap]
    /\ procs' = [procs EXCEPT ![p] = [@ EXCEPT !.pc = "unlock", !.block = 0]]
    /\ UNCHANGED <<indexerVars, blocks, lastCall, cacheMutex>>

\* The caller of createOrGetBlock or getBlockByRoot goes on with the block it
\* got.
Return(p) ==
    /\ procs[p].pc \in {"done", "got"}
    /\ procs' = [procs EXCEPT ![p] = [NoProc EXCEPT !.block = procs[p].block]]
    /\ UNCHANGED <<indexerVars, cacheVars, cacheMutex>>

\* getDependentBlock, lines 881-893: the parent was not in the cache and its
\* header is requested from the client.
FetchHeader(p) ==
    /\ procs[p].pc = "got"
    /\ procs[p].block = 0
    /\ procs' = [procs EXCEPT ![p] = [@ EXCEPT !.pc = "fetch"]]
    /\ UNCHANGED <<indexerVars, cacheVars, cacheMutex>>

\* getDependentBlock, lines 894-899: LoadBeaconHeader returned; the block
\* made from the header is not put into the cache.
FetchDone(p) ==
    /\ procs[p].pc = "fetch"
    /\ procs' = [procs EXCEPT ![p] = NoProc]
    /\ UNCHANGED <<indexerVars, cacheVars, cacheMutex>>

(***************************************************************************)
(* handlers.Validators and buildValidatorsPageData: the page window.       *)
(***************************************************************************)
\* Lines 34-47: pageSize from the c argument (strconv.ParseUint), capped.
ValidatorsPageSize(hasC, c, json) ==
    LET pageSize == IF hasC THEN c ELSE DefaultPageSize
    IN IF json /\ pageSize > JsonPageSizeCap THEN JsonPageSizeCap
       ELSE IF ~json /\ pageSize > HtmlPageSizeCap THEN HtmlPageSizeCap
       ELSE pageSize

\* Lines 252-291 of buildValidatorsPageData in unsigned arithmetic, for a
\* validator set of totalValidatorCount entries.  A division by zero is the
\* run-time panic of Go.
PageWindow(firstValIdx0, pageSize, totalValidatorCount) ==
    LET firstValIdx == IF firstValIdx0 # 0 /\ firstValIdx0 > totalValidatorCount
                       THEN totalValidatorCount ELSE firstValIdx0
        rest == (totalValidatorCount - firstValIdx) % UintMod
    IN IF pageSize = 0
       THEN [panic |-> TRUE, TotalPages |-> 0, CurrentPageIndex |-> 0,
             PrevPageValIdx |-> 0, NextPageValIdx |-> 0, LastPageValIdx |-> 0,
             FirstValidator |-> 0, LastValidator |-> 0]
       ELSE LET pagesBefore == (firstValIdx \div pageSize)
                               + (IF firstValIdx % pageSize > 0 THEN 1 ELSE 0)
                pagesAfter == (rest \div pageSize) + (IF rest % pageSize > 0 THEN 1 ELSE 0)
                lastValIdx == (firstValIdx + pageSize) % UintMod
            IN [panic |-> FALSE,
                TotalPages |-> pagesBefore + pagesAfter,
                CurrentPageIndex |-> pagesBefore + 1,
                PrevPageValIdx |-> IF pagesBefore > 0
                                   THEN (firstValIdx - pageSize) % UintMod ELSE 0,
                NextPageValIdx |-> IF pagesAfter > 1
                                   THEN (firstValIdx + pageSize) % UintMod ELSE 0,
                LastPageValIdx |-> (totalValidatorCount - pageSize) % UintMod,
                FirstValidator |-> firstValIdx,
                LastValidator |-> IF lastValIdx >= totalValidatorCount
                                  THEN totalValidatorCount ELSE lastValIdx]

\* The c arguments of a request: small ones and one above each cap.
PageArgs == 0..MaxPageArg \cup {HtmlPageSizeCap + 1, JsonPageSizeCap + 1}

\* A request of the validators page: Validators reads s and c and
\* buildValidatorsPageData computes the window for the validator set.
BuildValidatorsPageData ==
    \E s \in 0..(MaxValidators + 1), hasC \in BOOLEAN, c \in PageArgs, json \in BOOLEAN,
       total \in 0..MaxValidators :
    \E pageSize \in {ValidatorsPageSize(hasC, c, json)} :
       /\ hasC \/ c = 0
       /\ lastCall' = [op |-> "buildValidatorsPageData", firstValIdx |-> s,
                       pageSize |-> pageSize, total |-> total, json |-> json,
                       res |-> PageWindow(s, pageSize, total)]
       /\ UNCHANGED <<cache, blocks, indexerVars>>

(***************************************************************************)
(* Specifications.                                                         *)
(***************************************************************************)
Init == IndexerInit /\ CacheInit /\ LockInit

Next ==
    \/ RunDepositIndexer /\ UNCHANGED <<attempt, cacheVars, lockVars>>
    \/ ProcessFinalizedBlocks /\ UNCHANGED <<attempt, cacheVars, lockVars>>
    \/ ProcessRecentBlocksForFork /\ UNCHANGED <<attempt, cacheVars, lockVars>>
    \/ Restart /\ UNCHANGED <<attempt, cacheVars, lockVars>>

Spec == Init /\ [][Next]_vars

\* One run of the indexer process, with the batch size configured or left at 0.
InitConfig == (\E configured \in {0, DepositLogBatchSize} : IndexerInitWith(configured))
              /\ CacheInit /\ LockInit

NextConfig ==
    \/ RunDepositIndexer /\ UNCHANGED <<attempt, cacheVars, lockVars>>
    \/ ProcessFinalizedBlocks /\ UNCHANGED <<attempt, cacheVars, lockVars>>
    \/ ProcessRecentBlocksForFork /\ UNCHANGED <<attempt, cacheVars, lockVars>>

SpecConfig == InitConfig /\ [][NextConfig]_vars

\* One run of the indexer process on a database that holds a checkpoint with
\* HeadBlock >= FinalBlock.
InitCheckpoint ==
    (\E f \in 0..MaxBlock : \E h \in f..MaxBlock :
        IndexerInitFrom(DepositLogBatchSize, [FinalBlock |-> f, HeadBlock |-> h]))
    /\ CacheInit /\ LockInit

NextCheckpoint ==
    \/ RunDepositIndexer /\ UNCHANGED <<attempt, cacheVars, lockVars>>
    \/ ProcessFinalizedBlocks /\ UNCHANGED <<attempt, cacheVars, lockVars>>
    \/ ProcessRecentBlocksForFork /\ UNCHANGED <<attempt, cacheVars, lockVars>>

SpecCheckpoint == InitCheckpoint /\ [][NextCheckpoint]_vars

\* One call of processRecentBlocksForFork, statement by statement.
NextAttempt ==
    \/ AttemptEnter /\ UNCHANGED lockVars
    \/ AttemptCancelPrevious /\ UNCHANGED lockVars
    \/ AttemptNewContext /\ UNCHANGED lockVars
    \/ AttemptLoadFilteredLogs /\ UNCHANGED lockVars
    \/ AttemptProcessLog /\ UNCHANGED lockVars
    \/ AttemptPersist /\ UNCHANGED lockVars
    \/ AttemptReturn /\ UNCHANGED lockVars

SpecAttempt == Init /\ [][NextAttempt]_vars

NextCache ==
    \/ CreateOrGetBlock /\ UNCHANGED lockVars
    \/ RemoveBlock /\ UNCHANGED lockVars

SpecCache == Init /\ [][NextCache]_vars

NextChain ==
    \/ ChainAddBlock /\ UNCHANGED lockVars
    \/ ChainSetHeader /\ UNCHANGED lockVars
    \/ GetCanonicalDistance /\ UNCHANGED lockVars
    \/ GetBlocksByParentRoot /\ UNCHANGED lockVars

SpecChain == Init /\ [][NextChain]_vars

NextPrune ==
    \/ ChainAddBlock /\ UNCHANGED lockVars
    \/ ChainSetBlock /\ UNCHANGED lockVars
    \/ ChainRemoveBlock /\ UNCHANGED lockVars
    \/ GetPruningBlocks /\ UNCHANGED lockVars

SpecPrune == Init /\ [][NextPrune]_vars

NextLatest ==
    \/ LatestAddBlock /\ UNCHANGED lockVars
    \/ ChainSetBlock /\ UNCHANGED lockVars
    \/ ChainSetPersisted /\ UNCHANGED lockVars
    \/ GetLatestBlocks /\ UNCHANGED lockVars

SpecLatest == Init /\ [][NextLatest]_vars

NextWalk ==
    \/ WalkCreateBlock /\ UNCHANGED lockVars
    \/ WalkRemoveBlock /\ UNCHANGED lockVars
    \/ WalkStart /\ UNCHANGED lockVars
    \/ WalkHead /\ UNCHANGED lockVars
    \/ WalkHop /\ UNCHANGED lockVars

SpecWalk == Init /\ [][NextWalk]_vars

NextPage ==
    \/ BuildValidatorsPageData /\ UNCHANGED lockVars

SpecPage == Init /\ [][NextPage]_vars

NextDependent ==
    \/ DependentAddBlock /\ UNCHANGED lockVars
    \/ ChainSetHeader /\ UNCHANGED lockVars
    \/ GetDependentBlock /\ UNCHANGED lockVars

SpecDependent == Init /\ [][NextDependent]_vars

\* Two goroutines that each call createOrGetBlock once.
NextRace ==
    \E p \in Procs :
       \/ CreateLock(p)
       \/ CreateLookup(p)
       \/ CreateInsertRoot(p)
       \/ CreateInsertSlot(p)
       \/ Unlock(p)

SpecRace == Init /\ [][NextRace]_vars

\* Goroutines that call createOrGetBlock, getBlockByRoot, removeBlock and
\* getDependentBlock one call after the other.
NextConc ==
    \E p \in Procs :
       \/ CreateLock(p)
       \/ CreateLookup(p)
       \/ CreateInsertRoot(p)
       \/ CreateInsertSlot(p)
       \/ Unlock(p)
       \/ GetRLock(p)
       \/ GetRead(p)
       \/ RUnlock(p)
       \/ RemoveLock(p)
       \/ RemoveRoot(p)
       \/ RemoveSlot(p)
       \/ Return(p)
       \/ FetchHeader(p)
       \/ FetchDone(p)

SpecConc == Init /\ [][NextConc]_vars

(***************************************************************************)
(* Properties of the deposit indexer.                                      *)
(***************************************************************************)
\* The DepositEvent logs of the finalized chain in the blocks 1..b.
FinalizedEvents(b) ==
    LET logs == FilterLogs(FinalizedFork, 1, b)
    IN {logs[k] : k \in {j \in 1..Len(logs) : logs[j].Topic = DepositEventTopic}}

\* Number of committed rows with orphaned = false for deposit index i.
RECURSIVE BagSum(_, _)
BagSum(bag, set) ==
    IF set = {} THEN 0
    ELSE LET x == CHOOSE y \in set : TRUE
         IN CopiesIn(x, bag) + BagSum(bag, set \ {x})

FinalizedRowCount(i) ==
    BagSum(db.rows, {r \in BagToSet(db.rows) : r.Index = i /\ ~r.Orphaned})

\* Number of rows the recent pass committed in this process for (i, h).
SessionRowCount(i, h) ==
    BagSum(sessionRows, {r \in BagToSet(sessionRows) : r.Index = i /\ r.BlockRoot = h})

\* The rows the recent pass committed in this process for deposit index i.
SessionRowsOf(i) == {r \in BagToSet(sessionRows) : r.Index = i}

\* The state the indexer works with once it is loaded.
LoadedState == IF stateLoaded THEN state ELSE loadState(db)

\* C1: the finalized watermark, in memory and as stored, never covers a
\* block of which a deposit event has no committed finalized row.
C1_WatermarkCoversCommittedRows ==
    /\ stateLoaded => \A e \in FinalizedEvents(state.FinalBlock) : FinalizedRowCount(e.Index) >= 1
    /\ \A e \in FinalizedEvents(db.state.FinalBlock) : FinalizedRowCount(e.Index) >= 1

\* C2: a batch of the finalized pass whose persistence fails leaves
\* state.FinalBlock at the value it had before the batch.
C2_FailedBatchKeepsFinalBlock ==
    [][(pc = "finalized" /\ lastBatch'.ran /\ lastBatch'.err /\ ~lastBatch'.rpcErr)
          => state'.FinalBlock = state.FinalBlock]_vars

\* C3: every deposit index of a block at or below state.FinalBlock has
\* exactly one committed row with orphaned = false.
C3_ExactlyOneFinalizedRow ==
    stateLoaded => \A e \in FinalizedEvents(state.FinalBlock) : FinalizedRowCount(e.Index) = 1

\* C4: for an event (deposit index, block hash) delivered to the recent pass
\* any number of times in one process, one row is persisted, never two.
C4_RecentDedup ==
    \A r \in BagToSet(sessionRows) : SessionRowCount(r.Index, r.BlockRoot) = 1

\* C5: the FinalBlock the indexer works with is never below an earlier one.
C5_FinalBlockMonotonic ==
    stateLoaded => state.FinalBlock >= maxFinalBlock

\* C6: a tick in which the provider's finalized execution block number is
\* below the stored FinalBlock returns an error and changes neither the
\* checkpoint in memory, nor the stored one, nor any row; so on every tick.
C6_ConsistencyFaultHalts ==
    [][(pc = "idle" /\ ticks' = ticks + 1 /\ tickInput'.finalized
          /\ tickInput'.number < LoadedState.FinalBlock)
          => (/\ result' = "error"
              /\ pc' = "idle"
              /\ state' = LoadedState
              /\ db' = db
              /\ unfinalizedDeposits' = unfinalizedDeposits)]_vars

C6_Witness ==
    /\ pc = "idle" /\ result = "error" /\ stateLoaded
    /\ tickInput.finalized
    /\ tickInput.number < state.FinalBlock
    /\ db.state.FinalBlock = state.FinalBlock
    /\ BagToSet(db.rows) # {}

\* The block hashes in which deposit index i was delivered to the recent
\* passes of the tick.
DeliveredHashes(i) == {d.BlockHash : d \in {x \in recentLog.delivered : x.Index = i}}

\* The first tick of a process has ended, the recent pass of every fork head
\* returned no error and no log came twice in a response.
FirstTickDone ==
    /\ pc = "idle" /\ result = "ok" /\ sessionTicks = 1
    /\ ~recentLog.dup /\ recentLog.failed = {}

\* C7: when the recent passes over the heads of forks A and B were delivered
\* the same deposit index in two different blocks, they persisted exactly two
\* rows for that index, both orphaned, with different fork ids.
C7_TwoForksTwoRows ==
    FirstTickDone =>
        \A i \in AllIndices :
            Cardinality(DeliveredHashes(i)) = 2 =>
                /\ \A h \in DeliveredHashes(i) : SessionRowCount(i, h) = 1
                /\ Cardinality(SessionRowsOf(i)) = 2
                /\ \A r \in SessionRowsOf(i) : r.Orphaned /\ r.BlockRoot \in DeliveredHashes(i)
                /\ \A r1, r2 \in SessionRowsOf(i) : r1 # r2 => r1.ForkId # r2.ForkId

C7_Witness ==
    /\ FirstTickDone
    /\ \E i \in AllIndices :
        /\ Cardinality(DeliveredHashes(i)) = 2
        /\ Cardinality({r.ForkId : r \in SessionRowsOf(i)}) = 2

\* C8: a persisted batch of the finalized pass removes the dedup map's
\* entries of exactly the deposit indices of the batch; a failed batch leaves
\* the map as it was.
C8_PurgeOfFinalizedIndices ==
    [][(pc = "finalized" /\ lastBatch'.ran)
          => IF lastBatch'.err
             THEN unfinalizedDeposits' = unfinalizedDeposits
             ELSE unfinalizedDeposits' =
                    [i \in DOMAIN unfinalizedDeposits \ lastBatch'.indices |->
                        unfinalizedDeposits[i]]]_vars

C8_Witness ==
    /\ lastBatch.ran /\ ~lastBatch.err
    /\ DOMAIN unfinalizedDeposits # {}
    /\ \E r \in BagToSet(sessionRows) :
        r.Index \in lastBatch.indices /\ r.Index \notin DOMAIN unfinalizedDeposits

(***************************************************************************)
(* Properties of the block cache.                                          *)
(***************************************************************************)
\* The instances the root index holds, and those the slot buckets hold.
InRootMap == {cache.rootMap[r] : r \in DOMAIN cache.rootMap}
InSlotMap == UNION {{cache.slotMap[sl][k] : k \in 1..Len(cache.slotMap[sl])} :
                       sl \in DOMAIN cache.slotMap}

\* C9: createOrGetBlock of a root the cache holds returns the instance the
\* root index has for it, with wasCreated = false, and changes neither the
\* indexes, nor the slot bounds, nor any block.
C9_CreateOrGetIdempotent ==
    [][(lastCall'.op = "createOrGetBlock" /\ lastCall'.root \in DOMAIN cache.rootMap)
          => (/\ lastCall'.block = cache.rootMap[lastCall'.root]
              /\ ~lastCall'.wasCreated
              /\ cache' = cache
              /\ blocks' = blocks)]_vars

C9_Witness ==
    /\ lastCall.op = "createOrGetBlock" /\ ~lastCall.wasCreated
    /\ lastCall.block \in InRootMap
    /\ blocks[lastCall.block].Slot # lastCall.slot

\* C10: the root index and the slot buckets together never hold two
\* distinct instances with the same root.
C10_OneInstancePerRoot ==
    \A i, j \in InRootMap \cup InSlotMap : blocks[i].Root = blocks[j].Root => i = j

(***************************************************************************)
(* Properties of the block cache queries.                                  *)
(***************************************************************************)
RECURSIVE KthAncestor(_, _)
\* The root reached from root by k parent hops through tracked blocks whose
\* parent root is known; NoRoot when a block or a parent root is missing.
KthAncestor(root, k) ==
    IF k = 0 THEN root
    ELSE IF root \notin DOMAIN cache.rootMap THEN NoRoot
    ELSE IF blocks[cache.rootMap[root]].parentRoot = NoRoot THEN NoRoot
    ELSE KthAncestor(blocks[cache.rootMap[root]].parentRoot, k - 1)

\* r is a tracked ancestor of the tracked block head, d parent hops away.
IsAncestorAt(r, head, d) ==
    /\ r \in DOMAIN cache.rootMap
    /\ head \in DOMAIN cache.rootMap
    /\ KthAncestor(head, d) = r

MaxHops == Cardinality(ChainRoots)

\* C11: getCanonicalDistance(r, head, 0) returns (true, d) exactly when r is
\* an ancestor of head d parent hops away (0 for r = head), and (false, 0)
\* otherwise: when r's slot is above head's or a block or parent root on the
\* way is missing.
C11_CanonicalDistanceUnbounded ==
    (lastCall.op = "getCanonicalDistance" /\ lastCall.maxDistance = 0) =>
        LET res == lastCall.res
            r == lastCall.root
            head == lastCall.head
        IN /\ res.ok <=> \E d \in 0..MaxHops : IsAncestorAt(r, head, d)
           /\ res.ok => IsAncestorAt(r, head, res.distance)
           /\ ~res.ok => res.distance = 0
           /\ (r \in DOMAIN cache.rootMap /\ head \in DOMAIN cache.rootMap
                 /\ blocks[cache.rootMap[r]].Slot > blocks[cache.rootMap[head]].Slot) => ~res.ok

C11_Witness ==
    /\ lastCall.op = "getCanonicalDistance" /\ lastCall.maxDistance = 0
    /\ lastCall.res.ok /\ lastCall.res.distance = 2
    /\ lastCall.head = "a4" /\ lastCall.root = "a1"

\* C12: for maxDistance = m > 0, getCanonicalDistance(r, head, m) returns
\* (true, d) exactly when r is an ancestor of head at d <= m hops and
\* (false, 0) otherwise, also when r is an ancestor further away; with
\* maxDistance = 0 it agrees with the unbounded walk of isCanonicalBlock.
C12_CanonicalDistanceBounded ==
    (lastCall.op = "getCanonicalDistance" /\ lastCall.maxDistance > 0) =>
        LET res == lastCall.res
            r == lastCall.root
            head == lastCall.head
            m == lastCall.maxDistance
        IN /\ res.ok <=> \E d \in 0..m : IsAncestorAt(r, head, d)
           /\ res.ok => (res.distance <= m /\ IsAncestorAt(r, head, res.distance))
           /\ ~res.ok => res.distance = 0
           /\ isCanonicalBlock(cache, blocks, r, head)
                 <=> \E d \in 0..MaxHops : IsAncestorAt(r, head, d)

C12_Witness ==
    /\ lastCall.op = "getCanonicalDistance" /\ lastCall.maxDistance = 1
    /\ ~lastCall.res.ok
    /\ IsAncestorAt(lastCall.root, lastCall.head, 2)

\* C13: getPruningBlocks(minSlot) returns exactly the blocks the cache holds
\* whose slot is below minSlot and whose body is loaded.
C13_PruningBlocks ==
    \A minSlot \in PruneSlots :
        getPruningBlocks(cache, blocks, minSlot) =
            {id \in InRootMap \cup InSlotMap : blocks[id].Slot < minSlot /\ blocks[id].block}

C13_Witness ==
    /\ lastCall.op = "getPruningBlocks"
    /\ lastCall.res # {}
    /\ \E id \in InSlotMap \ lastCall.res : blocks[id].block /\ blocks[id].Slot = lastCall.minSlot
    /\ \E id \in InSlotMap \ lastCall.res : ~blocks[id].block /\ blocks[id].Slot < lastCall.minSlot

\* C14: an attempt of the recent pass that meets an RPC error before the last
\* of its MaxRetry attempts does not fail the pass of the fork: the pass stays
\* with the fork and goes on with the next attempt.
C14_RecentPassFailover ==
    [][(pc = "recent" /\ recentLog'.rpcErr /\ retryCount + 1 < MaxRetry)
        => /\ HeadForks[forkIdx] \notin recentLog'.failed
           /\ forkIdx' = forkIdx
           /\ retryCount' = retryCount + 1]_vars

\* The deposit events of the world, of every fork.
AllEvents ==
    UNION {{BlockLogs(f, n)[k] : k \in {j \in 1..Len(BlockLogs(f, n)) :
                                          BlockLogs(f, n)[j].Topic = DepositEventTopic}} :
           f \in Forks, n \in 1..MaxBlock}

\* The event (i, h) has a public key and a signature that decompress, and
\* the signature verifies.
ValidEvent(i, h) ==
    \E e \in AllEvents : /\ e.Index = i /\ e.BlockHash = h
                         /\ e.PubkeyOk /\ e.SignatureOk /\ e.Verifies

\* The deposit events of blocks from..to of the finalized chain.
FinalizedEventsIn(from, to) == {e \in FinalizedEvents(to) : e.BlockNumber >= from}

\* C15: a committed row has ValidSignature = true only if the public key and
\* the signature of its event decompress and the signature verifies, and
\* false otherwise; a batch of the finalized pass that was persisted holds a
\* row for each of its deposit events, the invalid ones included.
C15_InvalidDepositsArePersisted ==
    /\ \A r \in BagToSet(db.rows) : r.ValidSignature <=> ValidEvent(r.Index, r.BlockRoot)
    /\ (lastBatch.ran /\ ~lastBatch.err)
         => \A e \in FinalizedEventsIn(lastBatch.from, lastBatch.to) :
                \E r \in BagToSet(db.rows) :
                    /\ r.Index = e.Index /\ r.BlockRoot = e.BlockHash /\ ~r.Orphaned
                    /\ r.ValidSignature = (e.PubkeyOk /\ e.SignatureOk /\ e.Verifies)

\* A persisted batch with a valid deposit and one whose signature does not
\* verify, both with a committed row.
C15_Witness ==
    /\ lastBatch.ran /\ ~lastBatch.err
    /\ \E e1, e2 \in FinalizedEventsIn(lastBatch.from, lastBatch.to) :
           /\ e1.PubkeyOk /\ e1.SignatureOk /\ e1.Verifies
           /\ e2.PubkeyOk /\ e2.SignatureOk /\ ~e2.Verifies
           /\ \E r \in BagToSet(db.rows) : r.Index = e1.Index /\ r.ValidSignature /\ ~r.Orphaned
           /\ \E r \in BagToSet(db.rows) : r.Index = e2.Index /\ ~r.ValidSignature /\ ~r.Orphaned

\* C16: a batch of the finalized pass scans the blocks from FinalBlock + 1 to
\* the smaller of FinalBlock + batchSize and the finalized block number, where
\* batchSize is the configured one or DefaultBatchSize; a persisted batch
\* leaves FinalBlock at its last block, and the pass goes on with the next
\* batch until FinalBlock is the finalized block number.
C16_FinalizedBatches ==
    [][(pc = "finalized" /\ lastBatch'.ran)
        => /\ batchSize \in {DefaultBatchSize, DepositLogBatchSize}
           /\ lastBatch'.from = state.FinalBlock + 1
           /\ lastBatch'.to = Min(state.FinalBlock + batchSize, target)
           /\ lastBatch'.from <= lastBatch'.to
           /\ ~lastBatch'.err
                => /\ state'.FinalBlock = lastBatch'.to
                   /\ state.FinalBlock < state'.FinalBlock
                   /\ (lastBatch'.to < target) => (pc' = "finalized" /\ target' = target)
                   /\ (lastBatch'.to >= target)
                        => (pc' = "recent" /\ state'.FinalBlock = target)]_vars

\* The second batch of the first tick was persisted and ended the pass.
C16_Witness ==
    /\ ticks = 1 /\ restarts = 0 /\ pc = "recent" /\ batchSize = DepositLogBatchSize
    /\ lastBatch.ran /\ ~lastBatch.err
    /\ lastBatch.from = DepositLogBatchSize + 1
    /\ state.FinalBlock = lastBatch.to

C20_RecentPassKeepsCheckpoint ==
    [][pc = "recent" => (state' = state /\ db'.state = db.state)]_vars

\* A tick whose recent passes committed rows and failed for one fork.
C20_Witness ==
    /\ pc = "idle" /\ result = "ok"
    /\ sessionRows # EmptyBag /\ recentLog.failed # {}
    /\ state.FinalBlock > 0 /\ db.state = state

\* Number of places of the slot buckets that hold the instance id.
SlotMapCount(id) ==
    Cardinality({<<sl, k>> \in UNION {{sl2} \X (1..Len(cache.slotMap[sl2])) :
                                       sl2 \in DOMAIN cache.slotMap} :
                 cache.slotMap[sl][k] = id})

\* C18: when two goroutines have returned from createOrGetBlock of the same
\* root, exactly one of them got wasCreated = true, both got the same
\* instance, and the root index holds that instance for the root and the
\* slot buckets hold it once and no other instance of the root.
C18_ConcurrentCreateOrGet ==
    \A p, q \in Procs :
       (p # q /\ procs[p].pc = "done" /\ procs[q].pc = "done" /\ procs[p].root = procs[q].root)
         => /\ procs[p].wasCreated # procs[q].wasCreated
            /\ procs[p].block = procs[q].block
            /\ getBlockByRoot(cache, procs[p].root) = procs[p].block
            /\ SlotMapCount(procs[p].block) = 1
            /\ \A id \in InSlotMap : blocks[id].Root = procs[p].root => id = procs[p].block

\* Both goroutines returned from createOrGetBlock of the same root.
C18_Witness ==
    /\ procs[1].pc = "done" /\ procs[2].pc = "done"
    /\ procs[1].root = procs[2].root
    /\ procs[1].block # 0 /\ procs[1].block = procs[2].block
    /\ procs[2].wasCreated /\ ~procs[1].wasCreated

\* The goroutines keep to the lock: the exclusive lock excludes every other
\* holder, a map is written only by the holder of the exclusive lock and read
\* only by a holder of the shared lock, and no lock is held during a fetch.
LockDiscipline ==
    /\ cacheMutex.writer # 0 => cacheMutex.readers = {}
    /\ \A p \in Procs :
         /\ procs[p].pc \in {"lookup", "insertRoot", "insertSlot", "removeRoot", "removeSlot",
                              "unlock"} <=> cacheMutex.writer = p
         /\ procs[p].pc \in {"read", "runlock"} <=> p \in cacheMutex.readers
         /\ procs[p].pc = "fetch" => (cacheMutex.writer # p /\ p \notin cacheMutex.readers)

\* C19: a goroutine that holds the shared lock finds every root either in
\* both the root index and a slot bucket or in neither.
C19_ReadersSeeBothIndices ==
    cacheMutex.readers # {}
      => \A root \in Roots :
            (root \in DOMAIN cache.rootMap) <=> (\E id \in InSlotMap : blocks[id].Root = root)

RECURSIVE SeqMax(_)
SeqMax(sq) == IF Len(sq) = 1 THEN sq[1]
              ELSE IF sq[1] > SeqMax(Tail(sq)) THEN sq[1] ELSE SeqMax(Tail(sq))

RECURSIVE SeqMin(_)
SeqMin(sq) == IF Len(sq) = 1 THEN sq[1]
              ELSE IF sq[1] < SeqMin(Tail(sq)) THEN sq[1] ELSE SeqMin(Tail(sq))

\* The slots of the blocks created so far, in the order of creation.
CreatedSlots == [k \in 1..Len(blocks) |-> blocks[k].Slot]

\* C27: once a block was created, highestSlot is the largest and lowestSlot
\* the smallest slot of the blocks created so far.
C27_SlotBounds ==
    blocks # <<>> => /\ cache.highestSlot = SeqMax(CreatedSlots)
                     /\ cache.lowestSlot = SeqMin(CreatedSlots)

\* C29: no log query of the recent pass has the ToBlock that the unsigned
\* subtraction headBlockNumber - 1 wraps around to.
C29_RecentToBlockNoWrap ==
    recentLog.toBlock # UintMod - 1

\* C21: the rows a step of the finalized pass commits have orphaned = false
\* and forkId 0 (not set); the rows a step of the recent pass commits have
\* orphaned = true and the fork id of the first beacon block returned for
\* their block hash, or the id of the scanned head fork when none was
\* returned.
C21_OrphanedAndForkId ==
    [][/\ pc = "finalized"
           => \A r \in BagToSet(db'.rows (-) db.rows) : ~r.Orphaned /\ r.ForkId = 0
       /\ pc = "recent"
           => \A r \in BagToSet(db'.rows (-) db.rows) :
                 /\ r.Orphaned
                 /\ r.BlockRoot \in DOMAIN recentLog'.lookups
                 /\ r.ForkId = IF recentLog'.lookups[r.BlockRoot] = <<>>
                               THEN HeadForkId(HeadForks[forkIdx])
                               ELSE recentLog'.lookups[r.BlockRoot][1]]_vars

\* An attempt committed a row whose block hash two beacon blocks wrap, with
\* the fork id of the first one, and a row of a block no beacon block wraps.
C21_Witness ==
    \E r1, r2 \in BagToSet(db.rows) :
       /\ r1.Orphaned /\ r2.Orphaned
       /\ r1.BlockRoot \in DOMAIN recentLog.lookups
       /\ r2.BlockRoot \in DOMAIN recentLog.lookups
       /\ Len(recentLog.lookups[r1.BlockRoot]) > 1
       /\ r1.ForkId = recentLog.lookups[r1.BlockRoot][1]
       /\ r1.ForkId # recentLog.lookups[r1.BlockRoot][2]
       /\ recentLog.lookups[r2.BlockRoot] = <<>>
       /\ r2.ForkId = HeadForkId("A")

\* The instances the root index and the slot buckets of c hold.
RootIds(c) == {c.rootMap[r] : r \in DOMAIN c.rootMap}
SlotIds(c) == UNION {{c.slotMap[sl][k] : k \in 1..Len(c.slotMap[sl])} : sl \in DOMAIN c.slotMap}

\* The two indexes of c agree: each block of the root index is once in the
\* bucket of its slot and in no other, each bucket entry is the root index's
\* instance of its root, and no bucket is empty.
IndexesAgree(c, bs) ==
    /\ \A root \in DOMAIN c.rootMap :
          LET id == c.rootMap[root]
          IN /\ bs[id].Root = root
             /\ bs[id].Slot \in DOMAIN c.slotMap
             /\ Cardinality({k \in 1..Len(c.slotMap[bs[id].Slot]) :
                                c.slotMap[bs[id].Slot][k] = id}) = 1
    /\ \A sl \in DOMAIN c.slotMap :
          /\ c.slotMap[sl] # <<>>
          /\ \A k \in 1..Len(c.slotMap[sl]) :
                LET id == c.slotMap[sl][k]
                IN /\ bs[id].Slot = sl
                   /\ bs[id].Root \in DOMAIN c.rootMap
                   /\ c.rootMap[bs[id].Root] = id

\* C23: a removeBlock of a block the cache holds takes that block, and no
\* other, out of the root index and out of the slot buckets; after every
\* createOrGetBlock and every such removeBlock the two indexes agree and no
\* slot bucket is empty.
C23_RemoveKeepsIndexesAgreed ==
    [][/\ IndexesAgree(cache', blocks')
       /\ (cache' # cache /\ blocks' = blocks)
            => \E b \in RootIds(cache) :
                  /\ RootIds(cache') = RootIds(cache) \ {b}
                  /\ SlotIds(cache') = SlotIds(cache) \ {b}
                  /\ b \in SlotIds(cache)]_vars

\* A block was removed from a bucket that still holds another block, and a
\* block was removed that was alone in its bucket.
C23_Witness ==
    \E b1, b2 \in 1..Len(blocks) :
       /\ b1 \notin InRootMap \cup InSlotMap
       /\ b2 \notin InRootMap \cup InSlotMap
       /\ blocks[b1].Slot \in DOMAIN cache.slotMap
       /\ blocks[b2].Slot \notin DOMAIN cache.slotMap

\* C30: getBlocksByParentRoot(p) returns exactly the cached blocks whose
\* parent root is known and equal to p and whose slot is above the slot of
\* p's block when the cache holds it.
C30_BlocksByParentRoot ==
    lastCall.op = "getBlocksByParentRoot" =>
        lastCall.res =
            {id \in InRootMap \cup InSlotMap :
                /\ blocks[id].parentRoot # NoRoot
                /\ blocks[id].parentRoot = lastCall.root
                /\ lastCall.root \in DOMAIN cache.rootMap
                     => blocks[id].Slot > blocks[cache.rootMap[lastCall.root]].Slot}

\* The children of a block the cache does not hold were returned, while the
\* cache holds a block whose parent root is not known.
C30_Witness ==
    /\ lastCall.op = "getBlocksByParentRoot"
    /\ lastCall.root \notin DOMAIN cache.rootMap
    /\ Cardinality(lastCall.res) = 2
    /\ \E id \in InRootMap : blocks[id].parentRoot = NoRoot

\* The blocks getLatestBlocks may return for a fork filter.
EligibleBlocks(forkId) ==
    {id \in InSlotMap :
        /\ blocks[id].block \/ blocks[id].isInFinalizedDb \/ blocks[id].isInUnfinalizedDb
        /\ forkId = AnyFork \/ blocks[id].forkId = forkId}

\* C24: getLatestBlocks(limit, forkId) returns eligible blocks only, each
\* once, in non-increasing slot order; all of them for limit = 0, and for
\* limit > 0 the min(limit, number of eligible blocks) of them that come
\* first in that order.
C24_LatestBlocks ==
    lastCall.op = "getLatestBlocks" =>
        LET res == lastCall.res
            eligible == EligibleBlocks(lastCall.forkId)
            returned == {res[k] : k \in 1..Len(res)}
        IN /\ returned \subseteq eligible
           /\ Cardinality(returned) = Len(res)
           /\ \A i, j \in 1..Len(res) : i < j => blocks[res[i]].Slot >= blocks[res[j]].Slot
           /\ Len(res) = IF lastCall.limit > 0
                         THEN Min(lastCall.limit, Cardinality(eligible))
                         ELSE Cardinality(eligible)
           /\ \A x \in eligible \ returned, y \in returned : blocks[x].Slot <= blocks[y].Slot

\* A call with a limit and a fork filter left out an eligible block of the
\* fork, a block of another fork and a block that is not eligible.
C24_Witness ==
    /\ lastCall.op = "getLatestBlocks" /\ lastCall.limit = 1 /\ lastCall.forkId = 0
    /\ Len(lastCall.res) = 1
    /\ Cardinality(EligibleBlocks(0)) = 2
    /\ Cardinality(EligibleBlocks(AnyFork)) = 2
    /\ \E id \in InSlotMap : blocks[id].forkId = 1


(***************************************************************************)
(* getDependentBlock                                                       *)
(***************************************************************************)
\* The nearest ancestor of root on the chain whose epoch is lower than epoch
\* or whose slot is 0.
RECURSIVE NearestDependent(_, _)
NearestDependent(root, epoch) ==
    LET p == ChainParent(root)
    IN IF EpochOfSlot(ChainSlot(p)) < epoch \/ ChainSlot(p) = 0 THEN p
       ELSE NearestDependent(p, epoch)

DependentOf(root) == NearestDependent(root, EpochOfSlot(ChainSlot(root)))

\* The blocks from root up to, and without, its dependent block.
RECURSIVE PathNodes(_, _)
PathNodes(root, dep) == IF root = dep THEN {} ELSE {root} \cup PathNodes(ChainParent(root), dep)

\* A parent link on the way from root to its dependent block cannot be
\* resolved from the cache and the database: the header of a cached block is
\* not loaded, or the parent is in neither.
LinkUnresolved(root, dbHeads) ==
    \E y \in PathNodes(root, DependentOf(root)) :
       \/ y \in DOMAIN cache.rootMap /\ GetParentRoot(blocks[cache.rootMap[y]]) = NoRoot
       \/ ChainParent(y) \notin DOMAIN cache.rootMap /\ ChainParent(y) \notin dbHeads

\* A first getDependentBlock call of a block returns the block itself for
\* slot 0, else its nearest ancestor of a lower epoch or of slot 0, and nil
\* only when a parent link is not resolvable from the cache and the database.
DependentBlockWalk ==
    (lastCall.op = "getDependentBlock" /\ lastCall.memo = NoRoot) =>
        IF ChainSlot(lastCall.root) = 0 THEN lastCall.res = lastCall.root
        ELSE IF lastCall.res # NoRoot THEN lastCall.res = DependentOf(lastCall.root)
        ELSE LinkUnresolved(lastCall.root, lastCall.db)

\* C25: getDependentBlock returns the block itself for slot 0, otherwise the
\* nearest ancestor of a lower epoch or of slot 0 (nil when a parent link
\* cannot be resolved), and a call for a block whose dependent root was
\* resolved before returns a block with that root.
C25_DependentBlock ==
    /\ DependentBlockWalk
    /\ (lastCall.op = "getDependentBlock" /\ lastCall.memo # NoRoot) =>
          lastCall.res = lastCall.memo

\* The positions of the header requests among the lookups of the last call.
FetchIdx == {k \in 1..Len(lastCall.trace) : lastCall.trace[k].kind = "fetch"}

\* C26: one getDependentBlock call makes at most one remote header request,
\* each request follows a cache miss and then a database miss for the same
\* root, and without a client no request is made.
C26_OneHeaderFetch ==
    lastCall.op = "getDependentBlock" =>
        /\ Cardinality(FetchIdx) <= 1
        /\ ~lastCall.client => FetchIdx = {}
        /\ \A k \in FetchIdx :
              /\ k >= 3
              /\ lastCall.trace[k - 2] =
                    [kind |-> "cache", root |-> lastCall.trace[k].root, hit |-> FALSE]
              /\ lastCall.trace[k - 1] =
                    [kind |-> "db", root |-> lastCall.trace[k].root, hit |-> FALSE]

\* A walk went on after its header request and met a second root that the
\* cache and the database missed.
C26_Witness ==
    /\ lastCall.op = "getDependentBlock"
    /\ lastCall.client
    /\ lastCall.memo = NoRoot
    /\ \E k \in FetchIdx :
          /\ lastCall.trace[k].hit
          /\ Len(lastCall.trace) = k + 2
          /\ lastCall.trace[k + 2].kind = "db"
          /\ ~lastCall.trace[k + 2].hit


(***************************************************************************)
(* The attempts of the recent pass.                                        *)
(***************************************************************************)
\* The contexts that are not cancelled.
LiveContexts == {i \in 1..Len(attempt.ctxs) : attempt.ctxs[i]}

\* C22: at most one attempt context of the recent pass is live: when an
\* attempt queries the logs and works on them only its own context is live,
\* and no context is live once the pass has returned, with or without error.
C22_OneLiveContext ==
    /\ Cardinality(LiveContexts) <= 1
    /\ attempt.pc \in {"query", "logs"} => LiveContexts = {attempt.ctx}
    /\ attempt.pc = "done" => LiveContexts = {}

\* The pass returned an error from its second attempt.
C22_Witness ==
    /\ attempt.pc = "done"
    /\ attempt.err
    /\ Len(attempt.ctxs) = 2

\* C28: within one batch the transaction of each transaction hash is
\* fetched at most once, whatever the order of the logs.
C28_TxFetchedOnce ==
    \A i, j \in 1..Len(attempt.fetched) :
        i # j => attempt.fetched[i] # attempt.fetched[j]


(***************************************************************************)
(* The recent pass and the tick, continued.                                *)
(***************************************************************************)
\* C31: every (deposit index, block hash) row an attempt of the recent pass
\* commits is in the dedup map when the attempt is over, also when a later
\* insert call of the attempt fails.
C31_CommittedRowsAreRecorded ==
    [][pc = "recent" =>
         \A row \in BagToSet(db'.rows (-) db.rows) :
             IsKnownUnfinalized(unfinalizedDeposits', row.Index, row.BlockRoot)]_vars


\* The log queries the call of processRecentBlocksForFork has issued: one per
\* context created, but for the context whose query is still to come.
LogQueries == Len(attempt.ctxs) - (IF attempt.pc = "query" THEN 1 ELSE 0)

\* C32: a recent pass of a fork head in which no call fails has issued
\* exactly one log query when it returns.
C32_OneQueryWhenNoCallFails ==
    (attempt.pc = "done" /\ ~attempt.err) => LogQueries = 1


\* C33: within a tick the passes run one after the other: the finalized pass
\* ends at its target before the recent pass starts and is not entered again
\* from the recent pass; a tick in which the finalized block lookup, the
\* consistency check or the finalized pass fails returns the error without a
\* recent pass; with justified epoch 0 the tick goes to the recent pass.
C33_PassesRunInSequence ==
    [][/\ (pc = "finalized" /\ pc' = "recent") =>
             (~lastBatch'.err /\ state'.FinalBlock = target)
       /\ pc = "recent" => pc' \in {"recent", "idle"}
       /\ (pc = "idle" /\ ticks' = ticks + 1 /\ tickInput'.justifiedEpoch > 0
             /\ (~tickInput'.finalized \/ tickInput'.number < state'.FinalBlock)) =>
             result' = "error"
       /\ (pc = "finalized" /\ lastBatch'.err) => result' = "error"
       /\ (pc \in {"idle", "finalized"} /\ result' = "error") =>
             (pc' = "idle" /\ recentLog' = NoRecent /\ sessionRows' = sessionRows
              /\ unfinalizedDeposits' = unfinalizedDeposits)
       /\ (pc = "idle" /\ ticks' = ticks + 1 /\ tickInput'.justifiedEpoch = 0) =>
             (pc' = "recent" /\ lastBatch' = NoBatch /\ state' \in {state, loadState(db)})]_vars

\* A tick ended with the error of a batch of its finalized pass and ran no
\* recent pass.
C33_Witness ==
    /\ pc = "idle" /\ result = "error"
    /\ lastBatch.ran /\ lastBatch.err
    /\ recentLog = NoRecent


\* C34: an error in the recent pass of a fork head is only logged: the pass
\* of the next fork head follows in the same tick, and after the last fork
\* head the tick returns no error.
C34_ForkErrorIsOnlyLogged ==
    [][pc = "recent" =>
         /\ result' # "error"
         /\ (HeadForks[forkIdx] \in recentLog'.failed) =>
               IF forkIdx < Len(HeadForks)
               THEN pc' = "recent" /\ forkIdx' = forkIdx + 1 /\ retryCount' = 0
               ELSE pc' = "idle" /\ result' = "ok"]_vars

\* The pass of fork A failed and the pass of fork B, run after it in the same
\* tick, committed rows; the tick returned no error.
C34_Witness ==
    /\ pc = "idle" /\ result = "ok"
    /\ recentLog.failed = {"A"}
    /\ \E e \in recentLog.delivered :
          /\ e.BlockHash[1] = "B"
          /\ \E row \in BagToSet(db.rows) :
                row.Orphaned /\ row.Index = e.Index /\ row.BlockRoot = e.BlockHash


\* C35: from a loaded checkpoint with HeadBlock >= FinalBlock every batch of
\* the finalized pass leaves state.HeadBlock >= state.FinalBlock and does
\* not lower HeadBlock.
C35_HeadBlockCoversFinalBlock ==
    [][(stateLoaded' => state'.HeadBlock >= state'.FinalBlock)
       /\ (pc = "finalized" => state'.HeadBlock >= state.HeadBlock)]_vars

\* A batch ended below a HeadBlock that was loaded above it: FinalBlock
\* advanced and HeadBlock stayed.
C35_Witness ==
    /\ lastBatch.ran /\ ~lastBatch.err
    /\ state.FinalBlock = lastBatch.to
    /\ lastBatch.to > 0
    /\ state.HeadBlock > state.FinalBlock


PageSliceBounds ==
    (lastCall.op = "buildValidatorsPageData" /\ ~lastCall.res.panic) =>
        /\ 0 <= lastCall.res.FirstValidator
        /\ lastCall.res.FirstValidator <= lastCall.res.LastValidator
        /\ lastCall.res.LastValidator <= lastCall.total
        /\ lastCall.res.LastValidator - lastCall.res.FirstValidator <= lastCall.pageSize

\* C37: buildValidatorsPageData computes its window without arithmetic
\* fault: it does not divide by zero, 0 <= FirstValidator <= LastValidator
\* <= total with at most pageSize validators between them, and
\* LastPageValIdx is total - pageSize and not below zero.
C37_PageWindowWithoutFault ==
    lastCall.op = "buildValidatorsPageData" =>
        /\ ~lastCall.res.panic
        /\ 0 <= lastCall.res.FirstValidator
        /\ lastCall.res.FirstValidator <= lastCall.res.LastValidator
        /\ lastCall.res.LastValidator <= lastCall.total
        /\ lastCall.res.LastValidator - lastCall.res.FirstValidator <= lastCall.pageSize
        /\ lastCall.total - lastCall.pageSize >= 0
        /\ lastCall.res.LastPageValIdx = lastCall.total - lastCall.pageSize

====
